---- MODULE Spec2Model ----
(***************************************************************************)
(* Command-repair and escalation pipeline of the NMAP-AI repository:       *)
(*   - ExecutionSimulator  (src/utils/execution_simulator.py)              *)
(*   - ErrorAnalyzer       (src/utils/agents/error_mapping_logic.py)       *)
(*   - SelfCorrectionAgent (src/utils/agents/self_correction_agent.py)     *)
(*   - Orchestrator        (backend/app/orchestrator/engine.py)            *)
(* Command texts and output lines are TLA+ strings; the string operators   *)
(* below work on them character by character, as Python's str and re do.   *)
(***************************************************************************)
EXTENDS Integers, Sequences, FiniteSets, TLC

VARIABLES
    pc,               \* position of correct_command
    command,          \* argument command of correct_command
    validation_status,\* argument validation_status
    max_attempts,     \* self.max_attempts of the agent
    session,          \* the CorrectionSession being built
    current_command,  \* local current_command
    attempt_num,      \* loop variable of the iterative loop
    attempt,          \* the CorrectionAttempt under construction
    exec_result,      \* local exec_result (last report of the loop body)
    repair_result,    \* local repair_result (<<>> for None)
    sim_calls,        \* simulator calls of this correct_command call, in order:
                      \* the calling phase and the report returned
    sessions,         \* self.sessions, the session history
    q,                \* text of the UserQuery given to handle
    opc,              \* position of Orchestrator.handle
    start_index,      \* chain.index(cx.level)
    level_index,      \* loop variable of the escalation loop
    gen_level,        \* level argument of the running _generate call
    oattempt,         \* loop variable of the validation loop
    cand,             \* local cand
    v,                \* local v (last ValidationResult)
    decision,         \* value returned by handle (<<>> while none)
    calls,            \* calls made to the external collaborators, in order
    mcp_log,          \* the lines of MCPLogger.log_file
    rpc,              \* position of SecurityRules.evaluate_command
    eval_flags,       \* argument flags of evaluate_command
    eval_targets,     \* argument targets of evaluate_command
    evaluation,       \* dict returned by evaluate_command (<<>> while none)
    vpc,              \* position of validate_nmap_command
    vcmd,             \* argument cmd, stripped at line 35
    execute_real,     \* argument execute_real
    apply_security_rules, \* argument apply_security_rules
    vparts,           \* local parts
    vflags,           \* local flags
    vtargets,         \* local targets
    vresponse,        \* local response, the dict returned
    vlog,             \* calls made by validate_nmap_command, in order
    spc,              \* position of simulate_execution
    clock,            \* time.time()
    timeout_time,     \* local timeout_time
    proc_script,      \* what the sandboxed process does
    written,          \* number of lines the process has written
    proc_status,      \* the process: none, running, terminating, exited
    proc_returncode,  \* process.returncode (<<>> for None)
    stdout_pipe,      \* lines written to stdout and not read yet
    stderr_pipe,      \* lines written to stderr and not read yet
    stdout_lines,     \* local stdout_lines
    stderr_lines,     \* local stderr_lines
    sim_result,       \* local result, the report returned
    an_pc,            \* position of analyze_errors
    an_report,        \* argument execution_result
    an_corrections,   \* list returned by analyze_errors
    correction_history, \* self.correction_history
    loop_task,        \* the request whose handler the event loop runs (0 for none)
    req_pc,           \* position of each repair request
    req_path,         \* the path correct_command takes for each request
    session_obj,      \* the CorrectionSession object of each request
    shared_sessions,  \* self_correction_agent.sessions, as references to objects
    last_read,        \* what the last reader of the history saw
    now,              \* int(time.time()), in seconds since the service started
    session_report,   \* what the last call of get_repair_session returned
    api_pc,           \* position of the call of POST /api/v1/validate
    api_reply,        \* the ValidationResult the service returns
    client_result,    \* the ValidationResult ValidatorClient.validate returns
    gc_pc,            \* position of the correction generator
    gc_command,       \* command handed to _generate_correction
    gc_mapping,       \* index of the matched entry of error_mappings
    gc_correction,    \* correction returned for gc_command
    gc_repeat         \* correction returned for the corrected command

agentVars == <<pc, command, validation_status, max_attempts, session,
               current_command, attempt_num, attempt, exec_result, repair_result,
               sim_calls,
               sessions>>
orchVars == <<q, opc, start_index, level_index, gen_level, oattempt, cand, v,
              decision, calls, mcp_log>>
riskVars == <<rpc, eval_flags, eval_targets, evaluation>>
valVars == <<vpc, vcmd, execute_real, apply_security_rules, vparts, vflags, vtargets,
             vresponse, vlog>>
simVars == <<spc, clock, timeout_time, proc_script, written, proc_status, proc_returncode,
             stdout_pipe, stderr_pipe, stdout_lines, stderr_lines, sim_result>>
analyzerVars == <<an_pc, an_report, an_corrections, correction_history>>
serverVars == <<loop_task, req_pc, req_path, session_obj, shared_sessions, last_read,
                now, session_report>>
apiVars == <<api_pc, api_reply, client_result>>
corrVars == <<gc_pc, gc_command, gc_mapping, gc_correction, gc_repeat>>
restVars == <<riskVars, valVars, simVars, analyzerVars, serverVars, apiVars, corrVars>>
othersOfRisk == <<agentVars, orchVars, valVars, simVars, analyzerVars, serverVars, apiVars, corrVars>>
othersOfValidator == <<agentVars, orchVars, riskVars, simVars, analyzerVars, serverVars, apiVars, corrVars>>
othersOfSim == <<agentVars, orchVars, riskVars, valVars, analyzerVars, serverVars, apiVars, corrVars>>
othersOfAnalyzer == <<agentVars, orchVars, riskVars, valVars, simVars, serverVars, apiVars, corrVars>>
othersOfServer == <<agentVars, orchVars, riskVars, valVars, simVars, analyzerVars, apiVars, corrVars>>
othersOfApi == <<agentVars, orchVars, riskVars, valVars, simVars, analyzerVars, serverVars, corrVars>>
othersOfCorrection == <<agentVars, orchVars, riskVars, valVars, simVars, analyzerVars, serverVars, apiVars>>
vars == <<agentVars, orchVars, restVars>>

riskIdle == rpc = "idle" /\ eval_flags = <<>> /\ eval_targets = <<>> /\ evaluation = <<>>
valIdle ==
    /\ vpc = "idle" /\ vcmd = "" /\ execute_real = FALSE /\ apply_security_rules = TRUE
    /\ vparts = <<>> /\ vflags = <<>> /\ vtargets = <<>> /\ vresponse = <<>> /\ vlog = <<>>
simIdle ==
    /\ spc = "idle" /\ clock = 0 /\ timeout_time = 0 /\ proc_script = <<>> /\ written = 0
    /\ proc_status = "none" /\ proc_returncode = <<>> /\ stdout_pipe = <<>>
    /\ stderr_pipe = <<>> /\ stdout_lines = <<>> /\ stderr_lines = <<>> /\ sim_result = <<>>
analyzerIdle ==
    /\ an_pc = "idle"
    /\ an_report = <<>>
    /\ an_corrections = <<>>
    /\ correction_history = <<>>
serverIdle ==
    /\ loop_task = 0
    /\ req_pc = <<>>
    /\ req_path = <<>>
    /\ session_obj = <<>>
    /\ shared_sessions = <<>>
    /\ last_read = <<>>
    /\ now = 0
    /\ session_report = <<>>
apiIdle ==
    /\ api_pc = "idle"
    /\ api_reply = <<>>
    /\ client_result = <<>>
corrIdle ==
    /\ gc_pc = "idle"
    /\ gc_command = ""
    /\ gc_mapping = 0
    /\ gc_correction = <<>>
    /\ gc_repeat = <<>>
restIdle == riskIdle /\ valIdle /\ simIdle /\ analyzerIdle /\ serverIdle /\ apiIdle /\ corrIdle

----------------------------------------------------------------------------
(* Strings: Python str / re primitives                                     *)

Char(s, i) == SubSeq(s, i, i)

\* s[i:].startswith(p)
StartsWithAt(s, p, i) == i + Len(p) - 1 <= Len(s) /\ SubSeq(s, i, i + Len(p) - 1) = p

\* p in s
Contains(s, p) == \E i \in 1..(Len(s) - Len(p) + 1) : StartsWithAt(s, p, i)

RECURSIVE ReplaceFrom(_, _, _, _)
ReplaceFrom(s, old, new, i) ==
    IF i > Len(s) THEN ""
    ELSE IF StartsWithAt(s, old, i)
         THEN new \o ReplaceFrom(s, old, new, i + Len(old))
         ELSE Char(s, i) \o ReplaceFrom(s, old, new, i + 1)

\* s.replace(old, new) and re.sub(old, new, s) for a literal old: every
\* non-overlapping occurrence, left to right
Replace(s, old, new) == ReplaceFrom(s, old, new, 1)

Upper == <<"A","B","C","D","E","F","G","H","I","J","K","L","M",
           "N","O","P","Q","R","S","T","U","V","W","X","Y","Z">>
Lower == <<"a","b","c","d","e","f","g","h","i","j","k","l","m",
           "n","o","p","q","r","s","t","u","v","w","x","y","z">>

LowerChar(c) ==
    IF \E k \in 1..Len(Upper) : Upper[k] = c
    THEN Lower[CHOOSE k \in 1..Len(Upper) : Upper[k] = c]
    ELSE c

RECURSIVE LowerFrom(_, _)
LowerFrom(s, i) == IF i > Len(s) THEN "" ELSE LowerChar(Char(s, i)) \o LowerFrom(s, i + 1)

\* s.lower()
ToLower(s) == LowerFrom(s, 1)

DigitChars == <<"0","1","2","3","4","5","6","7","8","9">>
Digits == {DigitChars[k] : k \in 1..10}
IsDigit(c) == c \in Digits

\* \s of re
IsSpace(c) == c \in {" ", "\t", "\n", "\r", "\f"}

\* the first index from i on that holds no white space (Len(s) + 1: none)
RECURSIVE SkipSpaces(_, _)
SkipSpaces(s, i) ==
    IF i <= Len(s) /\ IsSpace(Char(s, i)) THEN SkipSpaces(s, i + 1) ELSE i

\* the first index from i on that holds white space (Len(s) + 1: none)
RECURSIVE SkipNonSpaces(_, _)
SkipNonSpaces(s, i) ==
    IF i <= Len(s) /\ ~IsSpace(Char(s, i)) THEN SkipNonSpaces(s, i + 1) ELSE i

\* the first index from i on that holds no digit (Len(s) + 1: none)
RECURSIVE SkipDigits(_, _)
SkipDigits(s, i) ==
    IF i <= Len(s) /\ IsDigit(Char(s, i)) THEN SkipDigits(s, i + 1) ELSE i

RECURSIVE LastNonSpace(_, _)
LastNonSpace(s, i) ==
    IF i >= 1 /\ IsSpace(Char(s, i)) THEN LastNonSpace(s, i - 1) ELSE i

\* s.strip()
Strip(s) ==
    IF SkipSpaces(s, 1) > Len(s) THEN ""
    ELSE SubSeq(s, SkipSpaces(s, 1), LastNonSpace(s, Len(s)))

\* int(s) for a string of digits
RECURSIVE ParseInt(_)
ParseInt(s) ==
    IF Len(s) = 0 THEN 0
    ELSE ParseInt(SubSeq(s, 1, Len(s) - 1)) * 10
         + (CHOOSE d \in 0..9 : DigitChars[d + 1] = Char(s, Len(s)))

\* str(n) for n >= 0
RECURSIVE IntToStr(_)
IntToStr(n) ==
    IF n < 10 THEN DigitChars[n + 1]
    ELSE IntToStr(n \div 10) \o DigitChars[(n % 10) + 1]

\* the least element of a non-empty set of indices
First(hits) == CHOOSE m \in hits : \A n \in hits : m <= n

\* re.sub(r'\s*FLAG', '', s) for a literal flag that starts with "-"
RECURSIVE RemoveFlagFrom(_, _, _)
RemoveFlagFrom(s, flag, i) ==
    IF i > Len(s) THEN ""
    ELSE LET j == SkipSpaces(s, i)
         IN  IF StartsWithAt(s, flag, j)
             THEN RemoveFlagFrom(s, flag, j + Len(flag))
             ELSE Char(s, i) \o RemoveFlagFrom(s, flag, i + 1)

RemoveFlag(s, flag) == RemoveFlagFrom(s, flag, 1)

\* re.sub(r'\s*FLAG(?:\s+\S+)?', '', s) for a literal flag that starts
\* with "-": the flag goes with the word after it, when there is one
RECURSIVE RemoveFlagWithValueFrom(_, _, _)
RemoveFlagWithValueFrom(s, flag, i) ==
    IF i > Len(s) THEN ""
    ELSE LET j == SkipSpaces(s, i)
             e == j + Len(flag)
             k == SkipSpaces(s, e)
             m == SkipNonSpaces(s, k)
         IN  IF StartsWithAt(s, flag, j)
             THEN RemoveFlagWithValueFrom(s, flag, IF k > e /\ m > k THEN m ELSE e)
             ELSE Char(s, i) \o RemoveFlagWithValueFrom(s, flag, i + 1)

RemoveFlagWithValue(s, flag) == RemoveFlagWithValueFrom(s, flag, 1)

\* a match of r'-p\s+(\d+)-(\d+)' at index i of s
PortRangeAt(s, i) ==
    LET a == SkipSpaces(s, i + 2)
        b == SkipDigits(s, a)
        c == SkipDigits(s, b + 1)
    IN  /\ StartsWithAt(s, "-p", i)
        /\ a > i + 2
        /\ b > a
        /\ b <= Len(s)
        /\ Char(s, b) = "-"
        /\ c > b + 1

\* the groups of that match and the index after it
PortRangeMatch(s, i) ==
    LET a == SkipSpaces(s, i + 2)
        b == SkipDigits(s, a)
        c == SkipDigits(s, b + 1)
    IN  [group1 |-> SubSeq(s, a, b - 1), group2 |-> SubSeq(s, b + 1, c - 1), end |-> c]

PortRangeHits(s) == {i \in 1..Len(s) : PortRangeAt(s, i)}

\* the first index from i on that holds "-" or white space
RECURSIVE SkipScriptName(_, _)
SkipScriptName(s, i) ==
    IF i <= Len(s) /\ ~IsSpace(Char(s, i)) /\ Char(s, i) # "-"
    THEN SkipScriptName(s, i + 1) ELSE i

\* a match of r'--script\s+[^-\s]+' at index i of s
ScriptAt(s, i) ==
    LET a == SkipSpaces(s, i + 8)
    IN  /\ StartsWithAt(s, "--script", i)
        /\ a > i + 8
        /\ SkipScriptName(s, a) > a

(* A regular expression of the two pattern tables is a sequence of         *)
(* alternatives (a|b); an alternative is a sequence of literal parts that  *)
(* are separated by ".*" in the source pattern.                            *)
RECURSIVE PartsMatchFrom(_, _, _)
PartsMatchFrom(s, parts, i) ==
    IF parts = <<>> THEN TRUE
    ELSE \E j \in i..(Len(s) - Len(Head(parts)) + 1) :
            /\ StartsWithAt(s, Head(parts), j)
            /\ PartsMatchFrom(s, Tail(parts), j + Len(Head(parts)))

\* re.search(pattern, s, re.IGNORECASE) is not None
SearchIgnoreCase(pattern, s) ==
    \E a \in 1..Len(pattern) :
        PartsMatchFrom(ToLower(s), [k \in 1..Len(pattern[a]) |-> ToLower(pattern[a][k])], 1)

----------------------------------------------------------------------------
(* ExecutionSimulator                                                      *)

\* ErrorPattern.PATTERNS, in table order
PATTERNS == <<
    [pattern |-> << <<"Operation not permitted">> >>, type |-> "permission_denied", subtype |-> "requires_root"],
    [pattern |-> << <<"requires root privileges">> >>, type |-> "permission_denied", subtype |-> "requires_root"],
    [pattern |-> << <<"PCAP permission problem">> >>, type |-> "permission_denied", subtype |-> "pcap_permission"],
    [pattern |-> << <<"socket troubles">> >>, type |-> "permission_denied", subtype |-> "socket_permission"],
    [pattern |-> << <<"Failed to resolve">> >>, type |-> "dns_resolution", subtype |-> "dns_failure"],
    [pattern |-> << <<"Could not resolve hostname">> >>, type |-> "dns_resolution", subtype |-> "hostname_invalid"],
    [pattern |-> << <<"No route to host">> >>, type |-> "network_unreachable", subtype |-> "no_route"],
    [pattern |-> << <<"Host seems down">> >>, type |-> "network_unreachable", subtype |-> "host_down"],
    [pattern |-> << <<"Network is unreachable">> >>, type |-> "network_unreachable", subtype |-> "network_unreachable"],
    [pattern |-> << <<"Invalid argument">> >>, type |-> "invalid_argument", subtype |-> "invalid_arg"],
    [pattern |-> << <<"Unknown argument">> >>, type |-> "invalid_argument", subtype |-> "unknown_arg"],
    [pattern |-> << <<"Illegal port number">> >>, type |-> "port_specification", subtype |-> "illegal_port"],
    [pattern |-> << <<"Your port specifications are illegal">> >>, type |-> "port_specification", subtype |-> "port_spec_error"],
    [pattern |-> << <<"NSE: Failed to load", "script">> >>, type |-> "script_not_found", subtype |-> "script_load_fail"],
    [pattern |-> << <<"script ", " does not exist">> >>, type |-> "script_not_found", subtype |-> "script_missing"],
    [pattern |-> << <<"Unknown script">> >>, type |-> "script_not_found", subtype |-> "unknown_script"],
    [pattern |-> << <<"memory allocation problem">> >>, type |-> "resource_limit", subtype |-> "memory_limit"],
    [pattern |-> << <<"Too many open files">> >>, type |-> "resource_limit", subtype |-> "file_limit"],
    [pattern |-> << <<"nmap: unrecognized option">> >>, type |-> "syntax_error", subtype |-> "unrecognized_option"],
    [pattern |-> << <<"option requires an argument">> >>, type |-> "syntax_error", subtype |-> "missing_argument"] >>

\* ExecutionSimulator._determine_severity
_determine_severity(error_type) ==
    IF error_type \in {"permission_denied", "syntax_error", "timeout"} THEN "critical"
    ELSE IF error_type \in {"network_unreachable", "dns_resolution", "script_not_found"} THEN "high"
    ELSE "medium"

\* ExecutionSimulator._parse_error_output: the error entries one stderr line
\* adds to result["errors"] (the first matching pattern, or none)
_parse_error_output(line) ==
    LET hits == {k \in 1..Len(PATTERNS) : SearchIgnoreCase(PATTERNS[k].pattern, line)}
    IN  IF hits = {} THEN <<>>
        ELSE LET k == CHOOSE m \in hits : \A n \in hits : m <= n
             IN  << [type |-> PATTERNS[k].type,
                     subtype |-> PATTERNS[k].subtype,
                     message |-> Strip(line),
                     severity |-> _determine_severity(PATTERNS[k].type)] >>

\* Output lines the runner produces in this model
Lines == {"Failed to resolve scanme.nmap.org.",
          "sendto in send_ip_packet_sd: Operation not permitted",
          "You requested a scan type which requires root privileges.",
          "Host is up (0.010s latency).",
          "WARNING: No targets were specified, so 0 hosts scanned."}

\* _parse_error_output tabulated for the lines above (evaluated once)
ParsedLine == [line \in Lines |-> _parse_error_output(line)]

RECURSIVE ParseLines(_)
ParseLines(lines) ==
    IF lines = <<>> THEN <<>>
    ELSE ParsedLine[Head(lines)] \o ParseLines(Tail(lines))

\* ExecutionSimulator._interpret_exit_code
_interpret_exit_code(exit_code) ==
    LET exit_code_meanings == [c \in {1, 2, 3, 255} |->
            CASE c = 1 -> "Exit code 1: General runtime error"
              [] c = 2 -> "Exit code 2: Parse error (invalid command line)"
              [] c = 3 -> "Exit code 3: No targets specified"
              [] c = 255 -> "Exit code 255: Killed by signal"]
    IN  IF exit_code \in DOMAIN exit_code_meanings
        THEN << [type |-> "unknown", subtype |-> "",
                 message |-> exit_code_meanings[exit_code], severity |-> "high"] >>
        ELSE <<>>

(* What the sandboxed runner did in one run:                               *)
(*   kind  "exit"    - the process finished with return code `returncode`  *)
(*         "timeout" - self.timeout elapsed first; the process was         *)
(*                     terminated and then has `returncode`                *)
(*         "fault"   - the try block raised (docker missing, ...)          *)
(*   lines - the stderr lines read while the process was running           *)
\* result["errors"] of simulate_execution for a run of the runner
RunErrors(run) ==
    ParseLines(run.lines) \o
    (IF run.kind = "fault"
     THEN << [type |-> "unknown", subtype |-> "",
              message |-> "Simulation error: docker", severity |-> "critical"] >>
     ELSE (IF run.kind = "timeout"
           THEN << [type |-> "timeout", subtype |-> "",
                    message |-> "Execution timed out after 300s",
                    severity |-> "critical"] >>
           ELSE <<>>) \o
          (IF run.returncode # 0 THEN _interpret_exit_code(run.returncode) ELSE <<>>))

\* Behaviours of the sandboxed runner in this model
RunnerOutcomes ==
    {[kind |-> "exit", lines |-> <<>>, returncode |-> 0],
     [kind |-> "exit", lines |-> <<"Failed to resolve scanme.nmap.org.">>, returncode |-> 0],
     [kind |-> "exit", lines |-> <<"sendto in send_ip_packet_sd: Operation not permitted">>,
      returncode |-> 0],
     [kind |-> "exit",
      lines |-> <<"You requested a scan type which requires root privileges.">>,
      returncode |-> 1],
     [kind |-> "exit", lines |-> <<>>, returncode |-> 1],
     [kind |-> "exit",
      lines |-> <<"sendto in send_ip_packet_sd: Operation not permitted",
                  "sendto in send_ip_packet_sd: Operation not permitted">>,
      returncode |-> 1],
     [kind |-> "exit", lines |-> <<>>, returncode |-> 137],
     [kind |-> "timeout", lines |-> <<>>, returncode |-> -15],
     [kind |-> "fault", lines |-> <<>>, returncode |-> 0]}

\* RunErrors tabulated for the runs above (evaluated once)
RunErrorsTable == [run \in RunnerOutcomes |-> RunErrors(run)]

\* ExecutionSimulator.simulate_execution; exit_code is <<>> for None
simulate_execution(cmd, run) ==
    [command |-> cmd,
     execution |-> IF run.kind = "fault"
                   THEN [completed |-> FALSE, exit_code |-> <<>>]
                   ELSE [completed |-> TRUE, exit_code |-> <<run.returncode>>],
     errors |-> RunErrorsTable[run]]

----------------------------------------------------------------------------
(* ErrorAnalyzer                                                           *)

\* ErrorAnalyzer._initialize_mappings, in table order; confidence in 1/100
error_mappings == <<
    [error_type |-> "permission_denied",
     error_pattern |-> << <<"requires_root">>, <<"Operation not permitted">> >>,
     correction_type |-> "replace_flag", confidence |-> 95],
    [error_type |-> "permission_denied",
     error_pattern |-> << <<"PCAP permission problem">> >>,
     correction_type |-> "remove_flag", confidence |-> 90],
    [error_type |-> "port_specification",
     error_pattern |-> << <<"Illegal port number">>, <<"port specifications are illegal">> >>,
     correction_type |-> "fix_port_syntax", confidence |-> 85],
    [error_type |-> "dns_resolution",
     error_pattern |-> << <<"Failed to resolve">>, <<"Could not resolve hostname">> >>,
     correction_type |-> "add_flag", confidence |-> 80],
    [error_type |-> "script_not_found",
     error_pattern |-> << <<"Failed to load", "script">>, <<"script", "does not exist">> >>,
     correction_type |-> "alternative_approach", confidence |-> 75],
    [error_type |-> "timeout",
     error_pattern |-> << <<"timed out">>, <<"timeout">> >>,
     correction_type |-> "adjust_timing", confidence |-> 85],
    [error_type |-> "network_unreachable",
     error_pattern |-> << <<"No route to host">>, <<"Network is unreachable">> >>,
     correction_type |-> "simplify_command", confidence |-> 70],
    [error_type |-> "syntax_error",
     error_pattern |-> << <<"unrecognized option">>, <<"requires an argument">> >>,
     correction_type |-> "fix_general_syntax", confidence |-> 80] >>

\* correction_action["replacements"] of the first mapping, in dict order
replacements == << <<"-sS", "-sT">>, <<"-sA", "-sT">>, <<"-sF", "-sT">>,
                   <<"-sX", "-sT">>, <<"-sN", "-sT">>, <<"-sU", "-sT">> >>

\* correction_action["timing_adjustments"] of the timeout mapping
timing_adjustments == << <<"-T5", "-T4">>, <<"-T4", "-T3">>, <<"-T3", "-T2">> >>

\* correction_action["remove"] of the second mapping
remove == <<"-O", "--osscan-guess">>

\* correction_action["alternatives"] of the script mapping, in dict order,
\* each with its first alternative
alternatives == << <<"vuln", "default">>, <<"exploit", "safe">>, <<"brute", "auth">> >>

\* ErrorAnalyzer._apply_replacements: only the first old flag that occurs
_apply_replacements(cmd, repl) ==
    LET hits == {k \in 1..Len(repl) : Contains(cmd, repl[k][1])}
    IN  IF hits = {} THEN [corrected_command |-> cmd, changes |-> <<>>]
        ELSE LET k == CHOOSE m \in hits : \A n \in hits : m <= n
             IN  [corrected_command |-> Replace(cmd, repl[k][1], repl[k][2]),
                  changes |-> << "Replaced " \o repl[k][1] \o " with " \o repl[k][2] >>]

\* re.search(r'-T\d', cmd) is not None
HasTimingTemplate(cmd) ==
    \E i \in 1..Len(cmd) : StartsWithAt(cmd, "-T", i) /\ IsDigit(Char(cmd, i + 2))

\* ErrorAnalyzer._adjust_timing
_adjust_timing(cmd, adjustments) ==
    LET hits == {k \in 1..Len(adjustments) : Contains(cmd, adjustments[k][1])}
    IN  IF hits # {}
        THEN LET k == CHOOSE m \in hits : \A n \in hits : m <= n
             IN  [corrected_command |-> Replace(cmd, adjustments[k][1], adjustments[k][2]),
                  changes |-> << "Adjusted timing from " \o adjustments[k][1]
                                 \o " to " \o adjustments[k][2] >>]
        ELSE IF ~HasTimingTemplate(cmd)
             THEN [corrected_command |-> Replace(cmd, "nmap", "nmap -T3"),
                   changes |-> << "Added -T3 timing template" >>]
             ELSE [corrected_command |-> cmd, changes |-> <<>>]

\* a correction [corrected_command, changes] with one more change in front
WithChange(change, correction) ==
    [corrected_command |-> correction.corrected_command,
     changes |-> <<change>> \o correction.changes]

\* corrected.strip() on the command of a correction
Stripped(correction) ==
    [corrected_command |-> Strip(correction.corrected_command),
     changes |-> correction.changes]

\* the REMOVE_FLAG branch of _generate_correction before the final strip
RECURSIVE RemoveFlags(_, _)
RemoveFlags(cmd, flags) ==
    IF flags = <<>> THEN [corrected_command |-> cmd, changes |-> <<>>]
    ELSE IF Contains(cmd, Head(flags))
    THEN WithChange("Removed " \o Head(flags),
                    RemoveFlags(RemoveFlagWithValue(cmd, Head(flags)), Tail(flags)))
    ELSE RemoveFlags(cmd, Tail(flags))

\* _fix_port_syntax without the fix of reversed ranges (lines 324-327)
_fix_port_syntax_NoSwap(cmd) ==
    IF Contains(cmd, ";")
    THEN [corrected_command |-> Replace(cmd, ";", ","),
          changes |-> << "Replaced ; with , in port specification" >>]
    ELSE [corrected_command |-> cmd, changes |-> <<>>]

\* ErrorAnalyzer._fix_port_syntax
_fix_port_syntax(cmd) ==
    LET hits == {i \in 1..Len(cmd) :
                    /\ StartsWithAt(cmd, "-p", i)
                    /\ SkipSpaces(cmd, i + 2) > i + 2
                    /\ SkipSpaces(cmd, i + 2) <= Len(cmd)}
        \* lines 320-336 for the port specification of the match
        fix(port_spec) ==
            LET b == SkipDigits(port_spec, 1)
                c == SkipDigits(port_spec, b + 1)
                range_match == /\ b > 1
                               /\ b <= Len(port_spec)
                               /\ Char(port_spec, b) = "-"
                               /\ c > b + 1
                start == ParseInt(SubSeq(port_spec, 1, b - 1))
                end == ParseInt(SubSeq(port_spec, b + 1, c - 1))
                reversed == range_match /\ start > end
                \* lines 329-336 for the specification after the range fix
                separators(swapped) ==
                    LET semicolon == Contains(swapped, ";")
                        fixed_spec == IF semicolon THEN Replace(swapped, ";", ",")
                                      ELSE swapped
                    IN  [corrected_command |->
                            IF fixed_spec # port_spec
                            THEN Replace(cmd, "-p " \o port_spec, "-p " \o fixed_spec)
                            ELSE cmd,
                         changes |->
                            (IF reversed
                             THEN << "Fixed port range: " \o port_spec \o " -> "
                                     \o swapped >>
                             ELSE <<>>) \o
                            (IF semicolon
                             THEN << "Replaced ; with , in port specification" >>
                             ELSE <<>>)]
            IN  separators(IF reversed
                           THEN IntToStr(end) \o "-" \o IntToStr(start)
                           ELSE port_spec)
        \* the group of the match whose group starts at index a
        spec_at(a) == fix(SubSeq(cmd, a, SkipNonSpaces(cmd, a) - 1))
    IN  IF hits = {} THEN [corrected_command |-> cmd, changes |-> <<>>]
        ELSE spec_at(SkipSpaces(cmd, First(hits) + 2))

\* where the group of r'--script[=\s]+([^\s]+)' starts for a match at index
\* i of s (0: no match at i): after the longest run of "=" and white space
\* that leaves a character for the group
ScriptGroupStart(s, i) ==
    IF ~StartsWithAt(s, "--script", i) THEN 0
    ELSE LET starts == {g \in (i + 9)..Len(s) :
                           /\ ~IsSpace(Char(s, g))
                           /\ \A k \in (i + 8)..(g - 1) :
                                 Char(s, k) = "=" \/ IsSpace(Char(s, k))}
         IN  IF starts = {} THEN 0
             ELSE CHOOSE g \in starts : \A h \in starts : h <= g

\* ErrorAnalyzer._apply_alternative
_apply_alternative(cmd, alts) ==
    LET hits == {i \in 1..Len(cmd) : ScriptGroupStart(cmd, i) # 0}
        \* lines 348-362 for the script the pattern captured
        swap(current_script) ==
            LET found == {k \in 1..Len(alts) : Contains(current_script, alts[k][1])}
            IN  IF found = {} THEN [corrected_command |-> cmd, changes |-> <<>>]
                ELSE [corrected_command |->
                         Replace(cmd, "--script " \o current_script,
                                 "--script " \o alts[First(found)][2]),
                      changes |-> << "Replaced script " \o current_script
                                     \o " with " \o alts[First(found)][2] >>]
        \* the group of the match whose group starts at index g
        script_at(g) == swap(SubSeq(cmd, g, SkipNonSpaces(cmd, g) - 1))
    IN  IF hits = {} THEN [corrected_command |-> cmd, changes |-> <<>>]
        ELSE script_at(ScriptGroupStart(cmd, First(hits)))

\* step 2 of _simplify_command: the aggressive options are removed
RECURSIVE RemoveAggressive(_, _)
RemoveAggressive(cmd, flags) ==
    IF flags = <<>> THEN [corrected_command |-> cmd, changes |-> <<>>]
    ELSE IF Contains(cmd, Head(flags))
    THEN WithChange("Removed aggressive option " \o Head(flags),
                    RemoveAggressive(RemoveFlag(cmd, Head(flags)), Tail(flags)))
    ELSE RemoveAggressive(cmd, Tail(flags))

\* a correction followed by the next step on its command: the command of
\* the step, and the changes of both
AndThen(correction, step) ==
    [corrected_command |-> step.corrected_command,
     changes |-> correction.changes \o step.changes]

\* ErrorAnalyzer._simplify_command
_simplify_command(cmd) ==
    LET \* step 1, lines 371-386: the port range is reduced
        limit(start, end) ==
            IF end - start > 100
            THEN [corrected_command |->
                     Replace(cmd, "-p " \o IntToStr(start) \o "-" \o IntToStr(end),
                             "-p " \o IntToStr(start) \o "-" \o IntToStr(start + 100)),
                  changes |-> << "Limited port range to 100 ports" >>]
            ELSE [corrected_command |-> cmd, changes |-> <<>>]
        range(m) == limit(ParseInt(m.group1), ParseInt(m.group2))
        first(hits) == IF hits = {} THEN [corrected_command |-> cmd, changes |-> <<>>]
                       ELSE range(PortRangeMatch(cmd, First(hits)))
        ports == IF Contains(cmd, "-p-")
                 THEN [corrected_command |-> Replace(cmd, "-p-", "-p 1-1000"),
                       changes |-> << "Reduced port range from all to common ports (1-1000)" >>]
                 ELSE first(PortRangeHits(cmd))
        \* step 2, lines 388-393
        aggressive(c) == RemoveAggressive(c, <<"-A", "--version-all", "-sV", "-O">>)
        \* step 3, lines 395-401: the timing is reduced
        timing(c) ==
            IF Contains(c, "-T5")
            THEN [corrected_command |-> Replace(c, "-T5", "-T3"),
                  changes |-> << "Reduced timing from T5 to T3" >>]
            ELSE IF Contains(c, "-T4")
            THEN [corrected_command |-> Replace(c, "-T4", "-T3"),
                  changes |-> << "Reduced timing from T4 to T3" >>]
            ELSE [corrected_command |-> c, changes |-> <<>>]
        step2(p) == AndThen(p, aggressive(p.corrected_command))
        step3(a) == AndThen(a, timing(a.corrected_command))
    IN  Stripped(step3(step2(ports)))

\* ErrorAnalyzer._generate_correction
_generate_correction(cmd, mapping) ==
    CASE mapping.correction_type = "replace_flag" -> _apply_replacements(cmd, replacements)
      [] mapping.correction_type = "remove_flag" -> Stripped(RemoveFlags(cmd, remove))
      [] mapping.correction_type = "fix_port_syntax" -> _fix_port_syntax(cmd)
      [] mapping.correction_type = "alternative_approach" ->
            _apply_alternative(cmd, alternatives)
      [] mapping.correction_type = "simplify_command" -> _simplify_command(cmd)
      [] mapping.correction_type = "add_flag" ->
            IF ~Contains(cmd, "-n")
            THEN [corrected_command |-> Replace(cmd, "nmap", "nmap -n"),
                  changes |-> << "Added -n" >>]
            ELSE [corrected_command |-> cmd, changes |-> <<>>]
      [] mapping.correction_type = "adjust_timing" -> _adjust_timing(cmd, timing_adjustments)
      [] mapping.correction_type = "fix_general_syntax" ->
            [corrected_command |-> cmd, changes |-> <<>>]

\* the mapping analyze_errors picks for one error: the first in table order
\* with the error's type whose pattern matches its message (0: none)
FirstMapping(error) ==
    LET hits == {k \in 1..Len(error_mappings) :
                    /\ error_mappings[k].error_type = error.type
                    /\ SearchIgnoreCase(error_mappings[k].error_pattern, error.message)}
    IN  IF hits = {} THEN 0 ELSE CHOOSE m \in hits : \A n \in hits : m <= n

\* error records of reports handed to analyze_errors directly: the two
\* permission rules apart and together, a message in lower case, the two
\* rules of confidence 85, a type without a rule and a type whose rules do
\* not match the message
AnalyzerErrors ==
    {[type |-> "permission_denied", subtype |-> "requires_root",
      message |-> "sendto in send_ip_packet_sd: Operation not permitted",
      severity |-> "critical"],
     [type |-> "permission_denied", subtype |-> "pcap_permission",
      message |-> "pcap permission problem (are you root?)", severity |-> "critical"],
     [type |-> "permission_denied", subtype |-> "requires_root",
      message |-> "PCAP permission problem: Operation not permitted",
      severity |-> "critical"],
     [type |-> "port_specification", subtype |-> "port_spec_error",
      message |-> "Your port specifications are illegal.", severity |-> "medium"],
     [type |-> "timeout", subtype |-> "",
      message |-> "Execution timed out after 300s", severity |-> "critical"],
     [type |-> "dns_resolution", subtype |-> "dns_failure",
      message |-> "Failed to resolve example.com.", severity |-> "high"],
     [type |-> "unknown", subtype |-> "",
      message |-> "Simulation error: timed out", severity |-> "critical"],
     [type |-> "permission_denied", subtype |-> "requires_root",
      message |-> "You requested a scan type which requires root privileges.",
      severity |-> "critical"]}

\* the error entries the simulator produces in this model, and those above
KnownErrors ==
    AnalyzerErrors \union
    UNION {{errors[k] : k \in 1..Len(errors)} :
              errors \in {RunErrorsTable[run] : run \in RunnerOutcomes}}

\* FirstMapping tabulated for those errors (evaluated once)
FirstMappingTable == [error \in KnownErrors |-> FirstMapping(error)]

RECURSIVE CollectCorrections(_, _)
CollectCorrections(cmd, errors) ==
    IF errors = <<>> THEN <<>>
    ELSE LET k == FirstMappingTable[Head(errors)]
         IN  (IF k = 0 THEN <<>>
              ELSE << [error |-> Head(errors),
                       correction |-> _generate_correction(cmd, error_mappings[k]),
                       confidence |-> error_mappings[k].confidence] >>)
             \o CollectCorrections(cmd, Tail(errors))

\* a sort that puts the last of the corrections of equal confidence first
RECURSIVE SortByConfidence_TiesReversed(_)
SortByConfidence_TiesReversed(cs) ==
    IF cs = <<>> THEN <<>>
    ELSE LET best == CHOOSE i \in 1..Len(cs) :
                        /\ \A j \in 1..Len(cs) : cs[j].confidence <= cs[i].confidence
                        /\ \A j \in (i + 1)..Len(cs) : cs[j].confidence < cs[i].confidence
         IN  <<cs[best]>> \o
             SortByConfidence_TiesReversed(SubSeq(cs, 1, best - 1)
                                           \o SubSeq(cs, best + 1, Len(cs)))

\* list.sort(key=confidence, reverse=True): stable, ties keep their order
RECURSIVE SortByConfidence(_)
SortByConfidence(cs) ==
    IF cs = <<>> THEN <<>>
    ELSE LET best == CHOOSE i \in 1..Len(cs) :
                        /\ \A j \in 1..Len(cs) : cs[j].confidence <= cs[i].confidence
                        /\ \A j \in 1..(i - 1) : cs[j].confidence < cs[i].confidence
         IN  <<cs[best]>> \o
             SortByConfidence(SubSeq(cs, 1, best - 1) \o SubSeq(cs, best + 1, Len(cs)))

\* ErrorAnalyzer.analyze_errors
analyze_errors(execution_result) ==
    SortByConfidence(CollectCorrections(execution_result.command, execution_result.errors))

----------------------------------------------------------------------------
(* SelfCorrectionAgent                                                     *)

\* largest max_attempts the agent is constructed with (default 3)
MaxAttemptsBound == 3

\* SelfCorrectionAgent.AUTONOMOUS_FIXES: the keys, and per key the repair
\* type and the fixes in list order. A fix of kind "sub" replaces a pattern
\* that is a choice of literals; "port_range" is the fix with a check and a
\* replacement function; "script" replaces r'--script\s+[^-\s]+'
AUTONOMOUS_FIXES_KEYS ==
    {"permission_denied", "invalid_port_range", "dangerous_script", "timing_too_aggressive"}

\* AUTONOMOUS_FIXES whose permission fixes leave the SYN scan in place
AUTONOMOUS_FIXES_KeepSyn(error_type) ==
    CASE error_type = "permission_denied" ->
            [repair_type |-> "permission_fix",
             fixes |-> << [kind |-> "sub", pattern |-> <<"-sA">>, replacement |-> "-sT",
                           reason |-> "TCP Connect scan (-sT) is safer alternative"] >>]
      [] error_type = "invalid_port_range" ->
            [repair_type |-> "syntax_fix",
             fixes |-> << [kind |-> "port_range", pattern |-> <<>>, replacement |-> "",
                           reason |-> "Reversed port range - correcting to ascending order"] >>]
      [] error_type = "dangerous_script" ->
            [repair_type |-> "script_whitelist",
             fixes |-> << [kind |-> "script", pattern |-> <<>>,
                           replacement |-> "--script default",
                           reason |-> "Replacing unsafe scripts with default safe scripts"] >>]
      [] error_type = "timing_too_aggressive" ->
            [repair_type |-> "timing_adjustment",
             fixes |-> << [kind |-> "sub", pattern |-> <<"-T4", "-T5">>, replacement |-> "-T3",
                           reason |-> "Reducing timing from aggressive to moderate"] >>]

AUTONOMOUS_FIXES(error_type) ==
    CASE error_type = "permission_denied" ->
            [repair_type |-> "permission_fix",
             fixes |-> << [kind |-> "sub", pattern |-> <<"-sS">>, replacement |-> "-sT",
                           reason |-> "TCP Connect scan (-sT) doesn't require root privileges"],
                          [kind |-> "sub", pattern |-> <<"-sA">>, replacement |-> "-sT",
                           reason |-> "TCP Connect scan (-sT) is safer alternative"] >>]
      [] error_type = "invalid_port_range" ->
            [repair_type |-> "syntax_fix",
             fixes |-> << [kind |-> "port_range", pattern |-> <<>>, replacement |-> "",
                           reason |-> "Reversed port range - correcting to ascending order"] >>]
      [] error_type = "dangerous_script" ->
            [repair_type |-> "script_whitelist",
             fixes |-> << [kind |-> "script", pattern |-> <<>>,
                           replacement |-> "--script default",
                           reason |-> "Replacing unsafe scripts with default safe scripts"] >>]
      [] error_type = "timing_too_aggressive" ->
            [repair_type |-> "timing_adjustment",
             fixes |-> << [kind |-> "sub", pattern |-> <<"-T4", "-T5">>, replacement |-> "-T3",
                           reason |-> "Reducing timing from aggressive to moderate"] >>]

\* fix_config["dangerous_scripts"] of the dangerous_script entry
dangerous_scripts == <<"exploit", "brute-force", "malware">>

\* re.sub(pattern, replacement, s) for a pattern that is a choice of literals
\* of equal length no two of which overlap
RECURSIVE SubLiteralsFrom(_, _, _, _)
SubLiteralsFrom(s, literals, replacement, i) ==
    IF i > Len(s) THEN ""
    ELSE LET hits == {k \in 1..Len(literals) : StartsWithAt(s, literals[k], i)}
         IN  IF hits # {}
             THEN replacement \o
                  SubLiteralsFrom(s, literals, replacement, i + Len(literals[First(hits)]))
             ELSE Char(s, i) \o SubLiteralsFrom(s, literals, replacement, i + 1)

SubLiterals(s, literals, replacement) == SubLiteralsFrom(s, literals, replacement, 1)

\* re.sub(r'-p\s+(\d+)-(\d+)', lambda m: f"-p {m.group(2)}-{m.group(1)}", s):
\* every port range has its two ends exchanged
RECURSIVE SwapPortRangesFrom(_, _)
SwapPortRangesFrom(s, i) ==
    IF i > Len(s) THEN ""
    ELSE IF PortRangeAt(s, i)
         THEN LET m == PortRangeMatch(s, i)
              IN  "-p " \o m.group2 \o "-" \o m.group1 \o SwapPortRangesFrom(s, m.end)
         ELSE Char(s, i) \o SwapPortRangesFrom(s, i + 1)

\* re.sub(r'--script\s+[^-\s]+', replacement, s)
RECURSIVE SubScriptsFrom(_, _, _)
SubScriptsFrom(s, replacement, i) ==
    IF i > Len(s) THEN ""
    ELSE IF ScriptAt(s, i)
         THEN replacement \o
              SubScriptsFrom(s, replacement, SkipScriptName(s, SkipSpaces(s, i + 8)))
         ELSE Char(s, i) \o SubScriptsFrom(s, replacement, i + 1)

\* lines 164-167: a fix that has a check is skipped when its pattern does
\* not occur or the check of the first match fails
FixSkipped(cmd, fix) ==
    /\ fix.kind = "port_range"
    /\ \E ranges \in {PortRangeHits(cmd)} :
          \/ ranges = {}
          \/ \E m \in {PortRangeMatch(cmd, First(ranges))} :
                ~(ParseInt(m.group1) > ParseInt(m.group2))

\* lines 170-179: the replacement of one fix
ApplyFix(cmd, fix) ==
    CASE fix.kind = "port_range" -> SwapPortRangesFrom(cmd, 1)
      [] fix.kind = "script" ->
            IF \E i \in 1..Len(cmd) : ScriptAt(cmd, i)
            THEN SubScriptsFrom(cmd, fix.replacement, 1)
            ELSE cmd
      [] fix.kind = "sub" ->
            IF \E k \in 1..Len(fix.pattern) : Contains(cmd, fix.pattern[k])
            THEN SubLiterals(cmd, fix.pattern, fix.replacement)
            ELSE cmd

\* the loop over fix_config["fixes"]: the command and the reasons appended
\* to changes_applied. A fix with a check that fails is skipped; any other
\* fix adds its reason whether or not its pattern occurs
RECURSIVE ApplyFixes(_, _)
ApplyFixes(cmd, fixes) ==
    LET applied(rest) == [repaired_command |-> rest.repaired_command,
                          changes |-> <<Head(fixes).reason>> \o rest.changes]
    IN  IF fixes = <<>> THEN [repaired_command |-> cmd, changes |-> <<>>]
        ELSE IF FixSkipped(cmd, Head(fixes)) THEN ApplyFixes(cmd, Tail(fixes))
        ELSE applied(ApplyFixes(ApplyFix(cmd, Head(fixes)), Tail(fixes)))

\* SelfCorrectionAgent.attempt_autonomous_repair; <<>> for None
attempt_autonomous_repair(cmd, error_type) ==
    LET \* lines 197-206: None when nothing was modified
        result(applied) ==
            IF applied.repaired_command = cmd /\ applied.changes = <<>> THEN <<>>
            ELSE << [repaired_command |-> applied.repaired_command,
                     repair_type |-> AUTONOMOUS_FIXES(error_type).repair_type,
                     changes |-> applied.changes,
                     original_error_type |-> error_type] >>
        \* lines 183-194: the check for dangerous scripts
        scripts(fixed) ==
            IF /\ error_type = "dangerous_script"
               /\ \E k \in 1..Len(dangerous_scripts) :
                     Contains(fixed.repaired_command, dangerous_scripts[k])
            THEN result([repaired_command |->
                            SubScriptsFrom(fixed.repaired_command, "--script default", 1),
                         changes |-> Append(fixed.changes,
                                            "Replaced dangerous script with default")])
            ELSE result(fixed)
    IN  IF error_type \notin AUTONOMOUS_FIXES_KEYS THEN <<>>
        ELSE scripts(ApplyFixes(cmd, AUTONOMOUS_FIXES(error_type).fixes))

\* a success test that looks at the exit code and completion only
_is_successful_execution_AnySeverity(result) ==
    /\ result.execution.exit_code = <<0>>
    /\ result.execution.completed

\* SelfCorrectionAgent._is_successful_execution
_is_successful_execution(result) ==
    /\ \A k \in 1..Len(result.errors) : result.errors[k].severity # "critical"
    /\ result.execution.exit_code = <<0>>
    /\ result.execution.completed

\* CorrectionAttempt(...) with the dataclass defaults
CorrectionAttempt(n, original, corrected, errors_before) ==
    [attempt_number |-> n, original_command |-> original,
     corrected_command |-> corrected, errors_before |-> errors_before,
     errors_after |-> <<>>, success |-> FALSE, changes_made |-> <<>>,
     repair_type |-> "None"]

\* CorrectionSession(...) with the dataclass defaults; final_command is
\* <<>> for None
CorrectionSession(cmd) ==
    [original_command |-> cmd, attempts |-> <<>>, final_command |-> <<>>,
     success |-> FALSE, is_autonomous_repair |-> FALSE, feedback_generated |-> <<>>]

RECURSIVE AllErrorsBefore(_)
AllErrorsBefore(attempts) ==
    IF attempts = <<>> THEN <<>>
    ELSE Head(attempts).errors_before \o AllErrorsBefore(Tail(attempts))

\* error_types[t] of _generate_upstream_feedback
CountType(errors, t) == Cardinality({k \in 1..Len(errors) : errors[k].type = t})

\* keys of error_types, in insertion order, kept when count >= len(attempts)
RECURSIVE PersistentFrom(_, _, _)
PersistentFrom(errors, k, n) ==
    IF k > Len(errors) THEN <<>>
    ELSE LET t == errors[k].type
             first == \A j \in 1..(k - 1) : errors[j].type # t
         IN  (IF first /\ CountType(errors, t) >= n THEN <<t>> ELSE <<>>)
             \o PersistentFrom(errors, k + 1, n)

InSeq(x, seq) == \E k \in 1..Len(seq) : seq[k] = x

\* an upstream feedback that is tagged complete_regeneration whatever the
\* persistent errors are
_generate_upstream_feedback_Untagged(sess, reason, max) ==
    [type |-> "complete_regeneration",
     reason |-> reason,
     attempts_made |-> Len(sess.attempts),
     persistent_errors |->
        PersistentFrom(AllErrorsBefore(sess.attempts), 1, Len(sess.attempts)),
     recommendations |-> <<>>,
     requires_m3_retry |-> TRUE]

\* SelfCorrectionAgent._generate_upstream_feedback
_generate_upstream_feedback(sess, reason, max) ==
    LET persistent_errors ==
            PersistentFrom(AllErrorsBefore(sess.attempts), 1, Len(sess.attempts))
        perm == InSeq("permission_denied", persistent_errors)
        net == InSeq("network_unreachable", persistent_errors)
        script == InSeq("script_not_found", persistent_errors)
        full == Len(sess.attempts) >= max
    IN  [type |-> IF full THEN "complexity_reduction"
                  ELSE IF script THEN "alternative_approach"
                  ELSE IF net THEN "target_modification"
                  ELSE IF perm THEN "privilege_escalation"
                  ELSE "complete_regeneration",
         reason |-> reason,
         attempts_made |-> Len(sess.attempts),
         persistent_errors |-> persistent_errors,
         recommendations |->
            (IF perm THEN <<"avoid_root_requiring_scans">> ELSE <<>>) \o
            (IF net THEN <<"verify_target_accessibility">> ELSE <<>>) \o
            (IF script THEN <<"use_basic_scripts">> ELSE <<>>) \o
            (IF full THEN <<"simplify_command">> ELSE <<>>),
         requires_m3_retry |-> TRUE]

\* SelfCorrectionAgent._analyze_persistent_issues
_analyze_persistent_issues(sess) ==
    IF sess.attempts = <<>> THEN <<>>
    ELSE LET last_attempt == sess.attempts[Len(sess.attempts)]
             last_errors == IF last_attempt.errors_after # <<>>
                            THEN last_attempt.errors_after
                            ELSE last_attempt.errors_before
         IN  [k \in 1..Len(last_errors) |->
                last_errors[k].type \o ": " \o last_errors[k].message]

\* SelfCorrectionAgent._recommend_final_action
_recommend_final_action(sess) ==
    LET errors == AllErrorsBefore(sess.attempts)
        has(t) == \E k \in 1..Len(errors) : errors[k].type = t
    IN  IF sess.attempts = <<>>
        THEN "No attempts made - check initial command validity"
        ELSE IF has("permission_denied")
        THEN "Request elevated privileges or use alternative scan methods"
        ELSE IF has("network_unreachable")
        THEN "Verify network connectivity and target accessibility"
        ELSE IF has("syntax_error")
        THEN "Regenerate command with correct syntax"
        ELSE "Consider simplifying requirements or using alternative approach"

\* SelfCorrectionAgent._generate_final_feedback, for a failed session
_generate_final_feedback(sess) ==
    [type |-> "final_summary",
     success |-> sess.success,
     total_attempts |-> Len(sess.attempts),
     is_autonomous_repair |-> sess.is_autonomous_repair,
     failure_analysis |-> [persistent_issues |-> _analyze_persistent_issues(sess),
                           recommended_action |-> _recommend_final_action(sess)],
     requires_m3_retry |-> TRUE]

(* Inputs of correct_command                                               *)
Commands == {"nmap -sS -p 80 scanme.nmap.org",
             "nmap -sA -sS -T5 10.0.0.5",
             "nmap -sV scanme.nmap.org"}

Statuses == {"Repairable", "Invalid"}

NoAttempt == CorrectionAttempt(0, "", "", <<>>)
NoResult == [command |-> "", execution |-> [completed |-> FALSE, exit_code |-> <<>>],
             errors |-> <<>>]

OrchIdle ==
    /\ q = "" /\ opc = "idle" /\ start_index = 0 /\ level_index = 0 /\ gen_level = 0
    /\ oattempt = 0 /\ cand = <<>> /\ v = <<>> /\ decision = <<>> /\ calls = <<>>
    /\ mcp_log = <<>>

InitAgent ==
    /\ pc = "start"
    /\ command \in Commands
    /\ validation_status \in Statuses
    /\ max_attempts \in 1..MaxAttemptsBound
    /\ session = CorrectionSession("")
    /\ current_command = ""
    /\ attempt_num = 0
    /\ attempt = NoAttempt
    /\ exec_result = NoResult
    /\ repair_result = <<>>
    /\ sim_calls = <<>>
    /\ sessions = <<>>
    /\ OrchIdle
    /\ restIdle

\* correct_command, lines 223-238: the session is created
Begin ==
    /\ pc = "start"
    /\ session' = CorrectionSession(command)
    /\ current_command' = command
    /\ attempt_num' = 1
    /\ pc' = IF validation_status = "Repairable" THEN "auto_exec" ELSE "iter_exec"
    /\ UNCHANGED <<orchVars, restVars>>
    /\ UNCHANGED <<command, validation_status, max_attempts, attempt, exec_result,
                   repair_result, sim_calls, sessions>>

\* lines 242-252: the command is executed once and the first error's type
\* is looked up in the known fixes
AutoExecute ==
    /\ pc = "auto_exec"
    /\ \E run \in RunnerOutcomes :
       \E r \in {simulate_execution(command, run)} :
       \E repair \in {IF r.errors # <<>>
                      THEN attempt_autonomous_repair(command, r.errors[1].type)
                      ELSE <<>>} :
            /\ sim_calls' = Append(sim_calls, [phase |-> "auto_exec", report |-> r])
            /\ exec_result' = r
            /\ repair_result' = repair
            /\ pc' = IF repair # <<>> THEN "auto_test" ELSE "iter_exec"
    /\ UNCHANGED <<orchVars, restVars>>
    /\ UNCHANGED <<command, validation_status, max_attempts, session, current_command,
                   attempt_num, attempt, sessions>>

\* the attempt record the autonomous phase creates, lines 262-267
AutonomousAttempt(cmd, repaired_cmd, errors) ==
    CorrectionAttempt(1, cmd, repaired_cmd, errors)

\* lines 256-284: the repaired command is tested
AutoTest ==
    /\ pc = "auto_test"
    /\ \E run \in RunnerOutcomes :
       \E test_result \in {simulate_execution(repair_result[1].repaired_command, run)} :
        LET repaired_cmd == repair_result[1].repaired_command
            att == AutonomousAttempt(command, repaired_cmd, exec_result.errors)
        IN  /\ sim_calls' = Append(sim_calls, [phase |-> "auto_test", report |-> test_result])
            /\ IF _is_successful_execution(test_result)
               THEN /\ session' = [session EXCEPT
                                     !.success = TRUE,
                                     !.is_autonomous_repair = TRUE,
                                     !.final_command = <<repaired_cmd>>,
                                     !.attempts = Append(@, [att EXCEPT !.success = TRUE])]
                    /\ sessions' = Append(sessions, session')
                    /\ pc' = "done"
                    /\ UNCHANGED current_command
               ELSE /\ session' = [session EXCEPT !.attempts = Append(@, att)]
                    /\ current_command' = repaired_cmd
                    /\ pc' = "iter_exec"
                    /\ UNCHANGED sessions
    /\ UNCHANGED <<orchVars, restVars>>
    /\ UNCHANGED <<command, validation_status, max_attempts, attempt_num, attempt,
                   exec_result, repair_result>>

\* an end of iteration whose loop runs one iteration past max_attempts
EndIteration_OneMore(att) ==
    /\ session' = [session EXCEPT !.attempts = Append(@, att)]
    /\ current_command' = att.corrected_command
    /\ attempt_num' = IF attempt_num <= max_attempts THEN attempt_num + 1 ELSE attempt_num
    /\ pc' = IF attempt_num <= max_attempts THEN "iter_exec" ELSE "finalize"

\* an end of iteration that keeps the baseline of the iteration
EndIteration_KeepsBaseline(att) ==
    LET appended == [session EXCEPT !.attempts = Append(@, att)]
    IN  /\ session' = IF attempt_num = max_attempts - 1
                      THEN [appended EXCEPT !.feedback_generated =
                                Append(@, _generate_upstream_feedback(
                                              appended, "max_attempts_approaching",
                                              max_attempts))]
                      ELSE appended
        /\ UNCHANGED current_command
        /\ attempt_num' = IF attempt_num < max_attempts THEN attempt_num + 1 ELSE attempt_num
        /\ pc' = IF attempt_num < max_attempts THEN "iter_exec" ELSE "finalize"

\* lines 355-364 and the loop header: the attempt is appended, the corrected
\* command becomes the baseline, the interim feedback is generated one
\* attempt before the last, and the loop goes on or is exhausted
EndIteration(att) ==
    LET appended == [session EXCEPT !.attempts = Append(@, att)]
    IN  /\ session' = IF attempt_num = max_attempts - 1
                      THEN [appended EXCEPT !.feedback_generated =
                                Append(@, _generate_upstream_feedback(
                                              appended, "max_attempts_approaching",
                                              max_attempts))]
                      ELSE appended
        /\ current_command' = att.corrected_command
        /\ attempt_num' = IF attempt_num < max_attempts THEN attempt_num + 1 ELSE attempt_num
        /\ pc' = IF attempt_num < max_attempts THEN "iter_exec" ELSE "finalize"

\* lines 289-339: one iteration up to the test of the corrected command
IterExecute ==
    /\ pc = "iter_exec"
    /\ \E run \in RunnerOutcomes :
       \E r \in {simulate_execution(current_command, run)} :
       \E corrections \in {analyze_errors(r)} :
        LET att == CorrectionAttempt(
                       attempt_num,
                       IF attempt_num = 1 THEN command
                       ELSE session.attempts[Len(session.attempts)].corrected_command,
                       current_command, r.errors)
        IN  /\ sim_calls' = Append(sim_calls, [phase |-> "iter_exec", report |-> r])
            /\ exec_result' = r
            /\ IF _is_successful_execution(r)
               THEN /\ session' = [session EXCEPT
                                     !.success = TRUE,
                                     !.final_command = <<current_command>>,
                                     !.attempts = Append(@, [att EXCEPT !.success = TRUE])]
                    /\ pc' = "finalize"
                    /\ UNCHANGED <<current_command, attempt_num, attempt>>
               ELSE IF corrections = <<>>
               THEN LET appended == [session EXCEPT !.attempts = Append(@, att)]
                    IN  /\ session' = [appended EXCEPT !.feedback_generated =
                                          Append(@, _generate_upstream_feedback(
                                                        appended, "no_corrections_available",
                                                        max_attempts))]
                        /\ pc' = "finalize"
                        /\ UNCHANGED <<current_command, attempt_num, attempt>>
               ELSE LET best_correction == corrections[1]
                        corrected == [att EXCEPT
                            !.corrected_command = best_correction.correction.corrected_command,
                            !.changes_made = best_correction.correction.changes]
                    IN  IF corrected.corrected_command # current_command
                        THEN /\ attempt' = corrected
                             /\ pc' = "iter_test"
                             /\ UNCHANGED <<session, current_command, attempt_num>>
                        ELSE /\ EndIteration(corrected)
                             /\ UNCHANGED attempt
    /\ UNCHANGED <<orchVars, restVars>>
    /\ UNCHANGED <<command, validation_status, max_attempts, repair_result, sessions>>

\* lines 339-364: the corrected command is tested
IterTest ==
    /\ pc = "iter_test"
    /\ \E run \in RunnerOutcomes :
       \E test_result \in {simulate_execution(attempt.corrected_command, run)} :
        LET att == [attempt EXCEPT !.errors_after = test_result.errors]
        IN  /\ sim_calls' = Append(sim_calls, [phase |-> "iter_test", report |-> test_result])
            /\ IF _is_successful_execution(test_result)
               THEN /\ session' = [session EXCEPT
                                     !.success = TRUE,
                                     !.final_command = <<att.corrected_command>>,
                                     !.attempts = Append(@, [att EXCEPT !.success = TRUE])]
                    /\ pc' = "finalize"
                    /\ UNCHANGED <<current_command, attempt_num>>
               ELSE EndIteration(att)
    /\ UNCHANGED <<orchVars, restVars>>
    /\ UNCHANGED <<command, validation_status, max_attempts, attempt, exec_result,
                   repair_result, sessions>>

\* a return that appends no final feedback to a failed session
Finalize_Silent ==
    /\ pc = "finalize"
    /\ sessions' = Append(sessions, session)
    /\ pc' = "done"
    /\ UNCHANGED <<orchVars, restVars>>
    /\ UNCHANGED <<command, validation_status, max_attempts, session, current_command,
                   attempt_num, attempt, exec_result, repair_result, sim_calls>>

\* lines 366-375: the session joins the history and, when it failed, the
\* final feedback is appended to it; the session is returned
Finalize ==
    /\ pc = "finalize"
    /\ session' = IF ~session.success
                  THEN [session EXCEPT !.feedback_generated =
                            Append(@, _generate_final_feedback(session))]
                  ELSE session
    /\ sessions' = Append(sessions, session')
    /\ pc' = "done"
    /\ UNCHANGED <<orchVars, restVars>>
    /\ UNCHANGED <<command, validation_status, max_attempts, current_command,
                   attempt_num, attempt, exec_result, repair_result, sim_calls>>

NextAgent ==
    \/ Begin
    \/ AutoExecute
    \/ AutoTest
    \/ IterExecute
    \/ IterTest
    \/ Finalize

SpecAgent == InitAgent /\ [][NextAgent]_vars

----------------------------------------------------------------------------
(* Properties of correct_command                                           *)

\* the success criterion, spelled out on a report
MeetsCriterion(report) ==
    /\ \A k \in 1..Len(report.errors) : report.errors[k].severity # "critical"
    /\ report.execution.exit_code = <<0>>
    /\ report.execution.completed = TRUE

Returned == pc = "done"
LastCall == sim_calls[Len(sim_calls)]
LastAttempt == session.attempts[Len(session.attempts)]

\* C1: a session is marked succeeded exactly when its finalCommand is set,
\* and then the most recent simulator call ran exactly that command and its
\* report met the success criterion (no critical error, exit code 0,
\* completed).
C1_SuccessOnlyByCriterion ==
    /\ session.success <=> session.final_command # <<>>
    /\ session.final_command # <<>> =>
          /\ sim_calls # <<>>
          /\ LastCall.report.command = session.final_command[1]
          /\ MeetsCriterion(LastCall.report)

\* a returned session that succeeded in the iterative phase with a command
\* a correction produced, after a report with a non-critical error
C1_Witness ==
    /\ Returned
    /\ session.success
    /\ ~session.is_autonomous_repair
    /\ session.final_command[1] # command
    /\ LastCall.report.errors # <<>>

\* C2 (as claimed): when the autonomous repair's test run meets the
\* criterion the session ends succeeded and autonomous with the repaired
\* command as finalCommand and exactly one attempt, which is marked
\* succeeded, has index 1 and has its repairType set; the test run is the
\* last simulator call.
C2_AutonomousSuccessRecord ==
    (/\ Returned
     /\ validation_status = "Repairable"
     /\ Len(sim_calls) >= 2
     /\ sim_calls[2].phase = "auto_test"
     /\ MeetsCriterion(sim_calls[2].report))
    => /\ session.success
       /\ session.is_autonomous_repair
       /\ session.final_command = <<sim_calls[2].report.command>>
       /\ Len(session.attempts) = 1
       /\ session.attempts[1].success
       /\ session.attempts[1].attempt_number = 1
       /\ session.attempts[1].repair_type # "None"
       /\ Len(sim_calls) = 2

ScanmeCommand == "nmap -sS -p 80 scanme.nmap.org"

C3_Scenario ==
    /\ Returned
    /\ command = ScanmeCommand
    /\ validation_status = "Repairable"
    /\ sim_calls[1].report.errors # <<>>
    /\ sim_calls[1].report.errors[1].type = "permission_denied"

C3_Outcome ==
    /\ session.success
    /\ session.is_autonomous_repair
    /\ session.final_command # <<>>
    /\ Contains(session.final_command[1], "-sT")
    /\ ~Contains(session.final_command[1], "-sS")
    /\ Len(session.attempts) = 1

\* C3 (as claimed): for "nmap -sS -p 80 scanme.nmap.org" with status
\* Repairable and a first simulated error of kind permission_denied, the
\* session is succeeded and autonomous, finalCommand contains -sT and not
\* -sS, and there is one attempt.
C3_AsClaimed == C3_Scenario => C3_Outcome

\* C3 (amended): the same, when the test run of the repaired command meets
\* the success criterion.
C3_AutonomousRepairScenario ==
    (C3_Scenario /\ MeetsCriterion(sim_calls[2].report)) => C3_Outcome

C3_Witness ==
    C3_Scenario /\ MeetsCriterion(sim_calls[2].report) /\ C3_Outcome

\* an upper bound of the steps correct_command still takes before it returns
C4_StepsLeft ==
    CASE pc = "start" -> 2 * max_attempts + 5
      [] pc = "auto_exec" -> 2 * max_attempts + 4
      [] pc = "auto_test" -> 2 * max_attempts + 3
      [] pc = "iter_exec" -> 2 * (max_attempts - attempt_num) + 3
      [] pc = "iter_test" -> 2 * (max_attempts - attempt_num) + 2
      [] pc = "finalize" -> 1
      [] pc = "done" -> 0

C4_Bounds ==
    /\ attempt_num <= max_attempts
    /\ Cardinality({k \in 1..Len(sim_calls) : sim_calls[k].phase = "iter_exec"}) <= max_attempts
    /\ Len(session.attempts) <= max_attempts + 1
    /\ Len(sim_calls) <= 2 * max_attempts + 2

NoCorrections(report) ==
    \A j \in 1..Len(report.errors) : FirstMappingTable[report.errors[j]] = 0

\* the iterative runs for which the Correction-Rule Engine has no correction
NoCorrectionCalls ==
    {k \in 1..Len(sim_calls) :
        /\ sim_calls[k].phase = "iter_exec"
        /\ ~MeetsCriterion(sim_calls[k].report)
        /\ NoCorrections(sim_calls[k].report)}

NoCorrectionFeedback ==
    {k \in 1..Len(session.feedback_generated) :
        session.feedback_generated[k].type # "final_summary"
        /\ session.feedback_generated[k].reason = "no_corrections_available"}

C5_Common ==
    \A k \in NoCorrectionCalls :
        /\ k = Len(sim_calls)
        /\ pc \in {"finalize", "done"}
        /\ ~session.success
        /\ session.attempts # <<>>
        /\ ~LastAttempt.success
        /\ LastAttempt.errors_before = sim_calls[k].report.errors
        /\ LastAttempt.corrected_command = sim_calls[k].report.command
        /\ Cardinality(NoCorrectionFeedback) = 1

\* C5 (as claimed): when the engine returns no corrections for a failing
\* run the failed attempt is recorded, a feedback record tagged
\* complete_regeneration with reason no_corrections_available is appended,
\* no further iteration runs and the session is not succeeded.
C5_AsClaimed ==
    /\ C5_Common
    /\ NoCorrectionCalls # {} =>
          \A k \in NoCorrectionFeedback :
              session.feedback_generated[k].type = "complete_regeneration"

\* an error kind is persistent when the recorded attempts' errors_before
\* hold at least as many errors of the kind as there are attempts
PersistentKind(t) ==
    Cardinality(UNION {{<<k, j>> : j \in {i \in 1..Len(session.attempts[k].errors_before) :
                                              session.attempts[k].errors_before[i].type = t}} :
                       k \in 1..Len(session.attempts)})
        >= Len(session.attempts)

\* C5 (amended): as claimed, except that the record is tagged
\* complete_regeneration only when fewer than maxAttempts attempts are
\* recorded and none of permission_denied, network_unreachable and
\* script_not_found is persistent; otherwise its tag is that of the last
\* cause that applies, in the order permission_denied, network_unreachable,
\* script_not_found, attempts exhausted.
C5_NoCorrectionsFeedback ==
    /\ C5_Common
    /\ NoCorrectionCalls # {} =>
          \A k \in NoCorrectionFeedback :
              session.feedback_generated[k].type =
                  IF Len(session.attempts) >= max_attempts THEN "complexity_reduction"
                  ELSE IF PersistentKind("script_not_found") THEN "alternative_approach"
                  ELSE IF PersistentKind("network_unreachable") THEN "target_modification"
                  ELSE IF PersistentKind("permission_denied") THEN "privilege_escalation"
                  ELSE "complete_regeneration"

\* a returned session stopped by a run without corrections and tagged
\* complete_regeneration
C5_Witness ==
    /\ Returned
    /\ NoCorrectionCalls # {}
    /\ \E k \in NoCorrectionFeedback :
          session.feedback_generated[k].type = "complete_regeneration"

FeedbackType == {"complexity_reduction", "parameter_change", "alternative_approach",
                 "privilege_escalation", "target_modification", "complete_regeneration"}

\* C6 (as claimed): when the loop exits without success the final feedback
\* record has a kind of the closed FeedbackRecord set, chosen from the
\* persistent error kinds.
C6_FinalFeedbackKind ==
    (Returned /\ ~session.success) =>
        LET fb == session.feedback_generated[Len(session.feedback_generated)]
        IN  /\ fb.type \in FeedbackType
            /\ (/\ PersistentKind("permission_denied")
                /\ ~PersistentKind("network_unreachable")
                /\ ~PersistentKind("script_not_found")) => fb.type = "privilege_escalation"

\* C7: correct_command never raises (its one unguarded lookup, the previous
\* attempt read at the start of a later iteration, always finds an attempt),
\* and every failure, a runner fault included, is returned as a session
\* with succeeded=false and a non-empty feedback list.
C7_FailureIsAResult ==
    /\ (pc = "iter_exec" /\ attempt_num # 1) => session.attempts # <<>>
    /\ (Returned /\ ~session.success) => session.feedback_generated # <<>>
    /\ (Returned /\ ~LastCall.report.execution.completed)
          => ~session.success /\ session.feedback_generated # <<>>

\* a failed session returned after a runner fault in its last iteration,
\* with the final feedback as its only feedback record
C7_Witness ==
    /\ Returned
    /\ ~session.success
    /\ ~LastCall.report.execution.completed
    /\ Len(session.feedback_generated) = 1

----------------------------------------------------------------------------
(* Orchestrator (backend/app/orchestrator)                                 *)

\* engine.MAX_CORRECTIONS = int(os.getenv("MAX_CORRECTIONS", "3")): the
\* number of corrections the deployment allows (3 when the variable is unset)
MAX_CORRECTIONS == 2

\* chain = ["easy", "medium", "hard"], indexed from 0 as in the code
chain == [i \in 0..2 |-> <<"easy", "medium", "hard">>[i + 1]]
LastLevel == 2

\* classify.NMAP_HINTS
NMAP_HINTS == <<"nmap", "-sS", "-sU", "-A", "-p", "--open", "udp", "tcp", "scan",
                "port", "os detect">>

\* any(k in t for k in keywords)
AnyIn(keywords, t) == \E k \in 1..Len(keywords) : Contains(t, keywords[k])

\* classify.is_nmap_related: the field is_nmap_related of the result
is_nmap_related(text) == AnyIn(NMAP_HINTS, ToLower(text))

\* classify.baseline_complexity: the level of the result
baseline_complexity(text) ==
    LET t == ToLower(text)
    IN  IF AnyIn(<<"udp", "all ports", "os detect", "fragment", "bypass", "evasion">>, t)
        THEN "hard"
        ELSE IF AnyIn(<<"version", "scripts", "timing", "exclude", "-sV">>, t)
        THEN "medium"
        ELSE "easy"

\* chain.index(level)
ChainIndex(level) == CHOOSE i \in 0..LastLevel : chain[i] = level

\* the user queries handle is called with
Queries == {"Scan nmap simple", "service version on open ports",
            "udp scan of all ports", "bonjour"}

Related == [text \in Queries |-> is_nmap_related(text)]
StartIndex == [text \in Queries |-> ChainIndex(baseline_complexity(text))]

\* CommandCandidate(command, source_agent)
CommandCandidate(cmd, source_agent) == [command |-> cmd, source_agent |-> source_agent]

\* ValidationResult(status, score); the score in hundredths
ValidationResult(status, score) == [status |-> status, score |-> score]

\* what the Generator of a tier answers when it does not fail
GeneratorAnswer ==
    [i \in 0..LastLevel |->
        <<CommandCandidate("nmap -sS 192.168.1.10", "RAG"),
          CommandCandidate("nmap -sS -sV 192.168.1.10", "LLM"),
          CommandCandidate("nmap -A -p- 192.168.1.0/24", "DIFFUSION")>>[i + 1]]

\* what the Validator answers when it does not fail
ValidatorAnswers ==
    {ValidationResult("valid", 90), ValidationResult("valid", 60),
     ValidationResult("repairable", 50), ValidationResult("invalid", 10)}

\* what the client of Self-Correction gets for its POST /api/v1/repair:
\* status 200 with the RepairResponse of a repair that succeeded, status 200
\* with that of a repair that failed (repaired_command null, <<>> here), or
\* an error status (a transport error ends the same way)
RepairResponses(c) ==
    {[status_code |-> 200, repaired_command |-> <<c.command \o " -sT">>],
     [status_code |-> 200, repaired_command |-> <<>>],
     [status_code |-> 500, repaired_command |-> <<>>]}

\* SelfCorrectionClient.repair, lines 53-77: the response has no field
\* "command"; without a repaired command the candidate's own command is
\* taken, and any exception gives the candidate back as it is
SelfCorrectionClient_repair(c, response) ==
    IF response.status_code # 200 THEN c
    ELSE CommandCandidate(Strip(IF response.repaired_command # <<>>
                                THEN response.repaired_command[1]
                                ELSE c.command),
                          "SelfCorrection")

\* how a response counts in the log of calls: the service repaired the
\* command, or it did not (a failure response or no usable response)
RepairOutcome(response) ==
    IF response.status_code = 200 /\ response.repaired_command # <<>> THEN "ok"
    ELSE "failed"

\* what deps.selfcorr.repair returns for a candidate when it does not raise
SelfCorrAnswers(c) == {SelfCorrectionClient_repair(c, r) : r \in RepairResponses(c)}

\* one entry of the log of calls to the collaborators
Call(kind, tier, cmd, outcome, score) ==
    [kind |-> kind, visit |-> level_index, tier |-> tier, command |-> cmd,
     outcome |-> outcome, score |-> score]

\* a log that writes the entry at the top of the file
MCPLogger_log_Prepending(file, stage, data) == <<data @@ [stage |-> stage]>> \o file

\* MCPLogger.log: the entry {timestamp, stage, **data} is appended to the
\* file as one line (the timestamp is left out)
MCPLogger_log(file, stage, data) == Append(file, data @@ [stage |-> stage])

\* what the file holds when handle is called: nothing (__init__ has just
\* created it), or the lines of an earlier request that failed
PriorLogs ==
    {<<>>,
     << [stage |-> "comprehension", is_nmap_related |-> TRUE, user_query |-> "scan"],
        [stage |-> "pipeline_failure", user_query |-> "scan"] >>}

agentIdle ==
    /\ pc = "idle"
    /\ command = ""
    /\ validation_status = ""
    /\ max_attempts = 1
    /\ session = CorrectionSession("")
    /\ current_command = ""
    /\ attempt_num = 0
    /\ attempt = NoAttempt
    /\ exec_result = NoResult
    /\ repair_result = <<>>
    /\ sim_calls = <<>>
    /\ sessions = <<>>

InitOrch ==
    /\ agentIdle
    /\ restIdle
    /\ q \in Queries
    /\ opc = "start"
    /\ start_index = 0
    /\ level_index = 0
    /\ gen_level = 0
    /\ oattempt = 0
    /\ cand = <<>>
    /\ v = <<>>
    /\ decision = <<>>
    /\ calls = <<>>
    /\ mcp_log \in PriorLogs

\* handle, lines 54-82: comprehension, complexity, entry of the escalation loop
Handle ==
    /\ opc = "start"
    /\ \E comprehended \in
            {MCPLogger_log(mcp_log, "comprehension",
                           [is_nmap_related |-> Related[q], user_query |-> q])} :
       IF ~Related[q]
       THEN /\ opc' = "http_400"
            /\ mcp_log' = comprehended
            /\ UNCHANGED <<start_index, level_index, gen_level>>
       ELSE /\ start_index' = StartIndex[q]
            /\ level_index' = StartIndex[q]
            /\ gen_level' = StartIndex[q]
            /\ mcp_log' =
                  MCPLogger_log(
                      MCPLogger_log(comprehended, "complexity_classification",
                                    [level |-> chain[StartIndex[q]], user_query |-> q]),
                      "generation_start",
                      [level |-> chain[StartIndex[q]], is_initial_level |-> TRUE])
            /\ opc' = "generate"
    /\ UNCHANGED <<agentVars, restVars>>
    /\ UNCHANGED <<q, oattempt, cand, v, decision, calls>>

\* the end of one pass of "for level_index in range(start_index, len(chain))"
\* with the file as the pass leaves it: the next level is entered (lines
\* 83-90), or the loop is over and handle raises 500 (lines 170-175)
NextLevel(file) ==
    IF level_index < LastLevel
    THEN /\ level_index' = level_index + 1
         /\ gen_level' = level_index + 1
         /\ mcp_log' = MCPLogger_log(file, "generation_start",
                                     [level |-> chain[level_index + 1],
                                      is_initial_level |-> FALSE])
         /\ opc' = "generate"
    ELSE /\ opc' = "http_500"
         /\ mcp_log' = MCPLogger_log(file, "pipeline_failure", [user_query |-> q])
         /\ UNCHANGED <<level_index, gen_level>>

\* a _generate that goes straight to the last level when a Generator fails
Generate_SkipsToLast ==
    /\ opc = "generate"
    /\ \/ /\ calls' = Append(calls, Call("generate", gen_level,
                                        GeneratorAnswer[gen_level].command, "ok", 0))
          /\ cand' = GeneratorAnswer[gen_level]
          /\ mcp_log' = MCPLogger_log(mcp_log, "generation_success",
                                      [level |-> chain[level_index],
                                       command |-> GeneratorAnswer[gen_level].command,
                                       source_agent |->
                                           GeneratorAnswer[gen_level].source_agent])
          /\ oattempt' = 1
          /\ opc' = "validate"
          /\ UNCHANGED gen_level
       \/ /\ calls' = Append(calls, Call("generate", gen_level, "", "error", 0))
          /\ mcp_log' = MCPLogger_log(mcp_log, "generation_failure",
                                      [level |-> chain[gen_level], user_query |-> q])
          /\ IF gen_level < LastLevel
             THEN /\ gen_level' = LastLevel
                  /\ opc' = "generate"
             ELSE /\ opc' = "http_503"
                  /\ UNCHANGED gen_level
          /\ UNCHANGED <<cand, oattempt>>
    /\ UNCHANGED <<agentVars, restVars>>
    /\ UNCHANGED <<q, start_index, level_index, v, decision>>

\* _generate, lines 180-208: one call of a tier's Generator; a failure makes
\* _generate call itself for the next level, or raise 503 at the last one
Generate ==
    /\ opc = "generate"
    /\ \/ /\ calls' = Append(calls, Call("generate", gen_level,
                                        GeneratorAnswer[gen_level].command, "ok", 0))
          /\ cand' = GeneratorAnswer[gen_level]
          /\ mcp_log' = MCPLogger_log(mcp_log, "generation_success",
                                      [level |-> chain[level_index],
                                       command |-> GeneratorAnswer[gen_level].command,
                                       source_agent |->
                                           GeneratorAnswer[gen_level].source_agent])
          /\ oattempt' = 1
          /\ opc' = "validate"
          /\ UNCHANGED gen_level
       \/ /\ calls' = Append(calls, Call("generate", gen_level, "", "error", 0))
          /\ mcp_log' = MCPLogger_log(mcp_log, "generation_failure",
                                      [level |-> chain[gen_level], user_query |-> q])
          /\ IF gen_level < LastLevel
             THEN /\ gen_level' = gen_level + 1
                  /\ opc' = "generate"
             ELSE /\ opc' = "http_503"
                  /\ UNCHANGED gen_level
          /\ UNCHANGED <<cand, oattempt>>
    /\ UNCHANGED <<agentVars, restVars>>
    /\ UNCHANGED <<q, start_index, level_index, v, decision>>

\* Orchestrator._finalize
_finalize(c, res) == [command |-> c.command, confidence |-> res.score]

\* handle, lines 117-124: the file after the validation_attempt entry
ValidationLogged(res) ==
    MCPLogger_log(mcp_log, "validation_attempt",
                  [attempt |-> oattempt, level |-> chain[level_index],
                   status |-> res.status, score |-> res.score, command |-> cand.command])

\* handle, lines 129-134: the data of the pipeline_success entry
SuccessData(res) ==
    [final_command |-> cand.command, final_confidence |-> res.score,
     final_level |-> chain[level_index], total_attempts |-> oattempt]

\* handle, lines 153-157: the file after the self_correction_success entry
RepairLogged(c) ==
    MCPLogger_log(mcp_log, "self_correction_success",
                  [attempt |-> oattempt, new_command |-> c.command])

\* handle, lines 144-148: the file after the self_correction_failure entry
RepairFailureLogged ==
    MCPLogger_log(mcp_log, "self_correction_failure",
                  [level |-> chain[level_index], attempt |-> oattempt])

\* a validation step that sends every candidate that is not valid to
\* Self-Correction
Validate_RepairsInvalid ==
    /\ opc = "validate"
    /\ \E res \in ValidatorAnswers \cup {<<>>} :
        LET result == IF res = <<>> THEN ValidationResult("invalid", 0) ELSE res
        IN  /\ calls' = Append(calls, Call("validate", gen_level, cand.command,
                                          IF res = <<>> THEN "error" ELSE res.status,
                                          result.score))
            /\ v' = result
            /\ IF result.status = "valid"
               THEN /\ decision' = <<_finalize(cand, result)>>
                    /\ mcp_log' = MCPLogger_log(ValidationLogged(result), "pipeline_success",
                                                SuccessData(result))
                    /\ opc' = "returned"
               ELSE /\ opc' = "repair"
                    /\ mcp_log' = ValidationLogged(result)
                    /\ UNCHANGED decision
    /\ UNCHANGED <<agentVars, restVars>>
    /\ UNCHANGED <<q, start_index, level_index, gen_level, oattempt, cand>>

\* handle, lines 106-136 and 160-167: one call of the Validator and the
\* branches on its status; a failure of the call counts as invalid
Validate ==
    /\ opc = "validate"
    /\ \E res \in ValidatorAnswers \cup {<<>>} :
        LET result == IF res = <<>> THEN ValidationResult("invalid", 0) ELSE res
        IN  /\ calls' = Append(calls, Call("validate", gen_level, cand.command,
                                          IF res = <<>> THEN "error" ELSE res.status,
                                          result.score))
            /\ v' = result
            /\ IF result.status = "valid"
               THEN /\ decision' = <<_finalize(cand, result)>>
                    /\ mcp_log' = MCPLogger_log(ValidationLogged(result), "pipeline_success",
                                                SuccessData(result))
                    /\ opc' = "returned"
                    /\ UNCHANGED <<level_index, gen_level>>
               ELSE IF result.status = "repairable"
               THEN /\ opc' = "repair"
                    /\ mcp_log' = ValidationLogged(result)
                    /\ UNCHANGED <<decision, level_index, gen_level>>
               ELSE /\ NextLevel(MCPLogger_log(ValidationLogged(result),
                                               "validation_failure",
                                               [attempt |-> oattempt,
                                                level |-> chain[level_index]]))
                    /\ UNCHANGED decision
    /\ UNCHANGED <<agentVars, restVars>>
    /\ UNCHANGED <<q, start_index, oattempt, cand>>

\* a repair step that returns the repaired command as the decision, with
\* the score of the validation that asked for the repair
Repair_Finalizes ==
    /\ opc = "repair"
    /\ \/ \E c \in SelfCorrAnswers(cand) :
            /\ calls' = Append(calls, Call("repair", gen_level, c.command, "ok", 0))
            /\ cand' = c
            /\ decision' = <<_finalize(c, v)>>
            /\ mcp_log' = RepairLogged(c)
            /\ opc' = "returned"
            /\ UNCHANGED <<level_index, gen_level, oattempt>>
       \/ /\ calls' = Append(calls, Call("repair", gen_level, cand.command, "error", 0))
          /\ NextLevel(RepairFailureLogged)
          /\ UNCHANGED <<cand, oattempt, decision>>
    /\ UNCHANGED <<agentVars, restVars>>
    /\ UNCHANGED <<q, start_index, v>>

\* a repair step whose validation loop runs one attempt past
\* MAX_CORRECTIONS + 1
Repair_OneMore ==
    /\ opc = "repair"
    /\ \/ \E response \in RepairResponses(cand) :
          \E c \in {SelfCorrectionClient_repair(cand, response)} :
            /\ calls' = Append(calls, Call("repair", gen_level, c.command,
                                          RepairOutcome(response), 0))
            /\ cand' = c
            /\ IF oattempt < MAX_CORRECTIONS + 2
               THEN /\ oattempt' = oattempt + 1
                    /\ mcp_log' = RepairLogged(c)
                    /\ opc' = "validate"
                    /\ UNCHANGED <<level_index, gen_level>>
               ELSE /\ NextLevel(RepairLogged(c))
                    /\ UNCHANGED oattempt
       \/ /\ calls' = Append(calls, Call("repair", gen_level, cand.command, "error", 0))
          /\ NextLevel(RepairFailureLogged)
          /\ UNCHANGED <<cand, oattempt>>
    /\ UNCHANGED <<agentVars, restVars>>
    /\ UNCHANGED <<q, start_index, v, decision>>

\* handle, lines 138-158: one call of Self-Correction; its answer replaces
\* cand and the validation loop goes on while attempts are left; a failure
\* of the call leaves the loop
Repair ==
    /\ opc = "repair"
    /\ \/ \E response \in RepairResponses(cand) :
          \E c \in {SelfCorrectionClient_repair(cand, response)} :
            /\ calls' = Append(calls, Call("repair", gen_level, c.command,
                                          RepairOutcome(response), 0))
            /\ cand' = c
            /\ IF oattempt < MAX_CORRECTIONS + 1
               THEN /\ oattempt' = oattempt + 1
                    /\ mcp_log' = RepairLogged(c)
                    /\ opc' = "validate"
                    /\ UNCHANGED <<level_index, gen_level>>
               ELSE /\ NextLevel(RepairLogged(c))
                    /\ UNCHANGED oattempt
       \/ /\ calls' = Append(calls, Call("repair", gen_level, cand.command, "error", 0))
          /\ NextLevel(RepairFailureLogged)
          /\ UNCHANGED <<cand, oattempt>>
    /\ UNCHANGED <<agentVars, restVars>>
    /\ UNCHANGED <<q, start_index, v, decision>>

NextOrch ==
    \/ Handle
    \/ Generate
    \/ Validate
    \/ Repair

SpecOrch == InitOrch /\ [][NextOrch]_vars

----------------------------------------------------------------------------
(* Properties of Orchestrator.handle                                       *)

LastExternalCall == calls[Len(calls)]

CallsOf(kinds, visit) ==
    {k \in 1..Len(calls) : calls[k].kind \in kinds /\ calls[k].visit = visit}

\* the Validator calls that ended Invalid, a failed call included
InvalidVerdicts ==
    {k \in 1..Len(calls) :
        calls[k].kind = "validate" /\ calls[k].outcome \in {"invalid", "error"}}

\* the last successful Generator call
LastGenerated ==
    CHOOSE g \in 1..Len(calls) :
        /\ calls[g].kind = "generate" /\ calls[g].outcome = "ok"
        /\ \A j \in (g + 1)..Len(calls) : calls[j].kind # "generate"

\* the request ended with a decision after Invalid verdicts in the visits of
\* easy and medium and a Valid verdict in the visit of hard
C8_EscalatedToHard ==
    /\ decision # <<>>
    /\ \E k \in InvalidVerdicts : calls[k].visit = 0
    /\ \E k \in InvalidVerdicts : calls[k].visit = 1
    /\ LastExternalCall.kind = "validate"
    /\ LastExternalCall.outcome = "valid"
    /\ LastExternalCall.visit = LastLevel

C9_DecisionValidated ==
    /\ opc = "returned" <=> decision # <<>>
    /\ decision # <<>> =>
          /\ calls # <<>>
          /\ LastExternalCall.kind = "validate"
          /\ LastExternalCall.outcome = "valid"
          /\ LastExternalCall.command = decision[1].command
          /\ LastExternalCall.score = decision[1].confidence

\* a decision for a command that was repaired and validated again
C9_Witness ==
    /\ opc = "returned"
    /\ decision # <<>>
    /\ Len(calls) >= 3
    /\ calls[Len(calls) - 1].kind = "repair"
    /\ calls[Len(calls) - 1].outcome = "ok"
    /\ decision[1].command = calls[Len(calls) - 1].command
    /\ decision[1].confidence = 60

FailedGenerations ==
    {k \in 1..Len(calls) : calls[k].kind = "generate" /\ calls[k].outcome = "error"}

\* C10: after a failed Generator call of a tier that is not the last, the
\* next call is the Generator of the next tier, in the same visit and with
\* no Validator call in between; after a failed Generator call of the last
\* tier no call is made and the request has failed (503) without a decision.
C10_GeneratorFailureAdvances ==
    \A k \in FailedGenerations :
        IF calls[k].tier < LastLevel
        THEN /\ k < Len(calls) =>
                   /\ calls[k + 1].kind = "generate"
                   /\ calls[k + 1].tier = calls[k].tier + 1
                   /\ calls[k + 1].visit = calls[k].visit
             /\ k = Len(calls) => opc = "generate" /\ gen_level = calls[k].tier + 1
        ELSE /\ k = Len(calls)
             /\ opc = "http_503"
             /\ decision = <<>>

\* a request that advanced past a failed Generator, had the next tier's
\* candidate validated, and later ended in the hard failure
C10_Witness ==
    /\ opc = "http_503"
    /\ \E k \in FailedGenerations :
          /\ calls[k].tier < LastLevel
          /\ calls[k + 1].kind = "generate"
          /\ calls[k + 1].outcome = "ok"
          /\ calls[k + 2].kind = "validate"

\* the Self-Correction calls that were asked for by a Repairable verdict
\* and whose answer the orchestrator took over as its candidate
C11_Adopts ==
    /\ \A k \in 1..Len(calls) :
          (calls[k].kind = "validate" /\ calls[k].outcome = "repairable") =>
              /\ k < Len(calls) =>
                    /\ calls[k + 1].kind = "repair"
                    /\ calls[k + 1].visit = calls[k].visit
              /\ k = Len(calls) => opc = "repair"
    /\ \A k \in 1..Len(calls) :
          calls[k].kind = "repair" =>
              /\ k > 1
              /\ calls[k - 1].kind = "validate"
              /\ calls[k - 1].outcome = "repairable"
              /\ (k < Len(calls) /\ calls[k + 1].kind = "validate") =>
                    /\ calls[k + 1].command = calls[k].command
                    /\ calls[k + 1].visit = calls[k].visit
              /\ (k = Len(calls) /\ opc = "validate") => cand.command = calls[k].command

\* the Self-Correction calls that failed: the service reported that it could
\* not repair, it gave no usable response, or the call raised
FailedRepairs ==
    {k \in 1..Len(calls) :
        calls[k].kind = "repair" /\ calls[k].outcome \in {"failed", "error"}}

\* C11 (as claimed): a Repairable verdict is followed by a Self-Correction
\* call, and the command it returns is the candidate of the next Validator
\* call; when Self-Correction fails the tier is abandoned: no later
\* Validator call is made in that tier visit, and the next call is the
\* Generator of the next tier, or the request fails when there is none.
C11_RepairOrAbandon ==
    /\ C11_Adopts
    /\ \A k \in FailedRepairs :
          /\ \A j \in (k + 1)..Len(calls) :
                calls[j].kind = "validate" => calls[j].visit > calls[k].visit
          /\ k < Len(calls) =>
                /\ calls[k + 1].kind = "generate"
                /\ calls[k + 1].visit = calls[k].visit + 1
          /\ k = Len(calls) =>
                IF calls[k].visit < LastLevel
                THEN opc = "generate" /\ level_index = calls[k].visit + 1
                ELSE opc = "http_500"

\* the positions at which handle has ended: with a decision, or with the
\* HTTPException of that status
Terminal == {"returned", "http_400", "http_500", "http_503"}

ValidVerdicts ==
    {k \in 1..Len(calls) : calls[k].kind = "validate" /\ calls[k].outcome = "valid"}

\* the most steps one pass of the escalation loop takes: a Generator call
\* per tier, and a Validator and a Self-Correction call per attempt
C12_VisitSteps == (LastLevel + 1) + 2 * (MAX_CORRECTIONS + 1)

\* an upper bound of the steps handle still takes before it ends
C12_StepsLeft ==
    CASE opc \in Terminal -> 0
      [] opc = "start" -> (LastLevel + 1) * C12_VisitSteps + 2
      [] opc = "generate" ->
            (LastLevel - level_index) * C12_VisitSteps
            + (LastLevel - gen_level + 1) + 2 * (MAX_CORRECTIONS + 1) + 1
      [] opc = "validate" ->
            (LastLevel - level_index) * C12_VisitSteps
            + 2 * (MAX_CORRECTIONS + 1 - oattempt) + 3
      [] opc = "repair" ->
            (LastLevel - level_index) * C12_VisitSteps
            + 2 * (MAX_CORRECTIONS + 1 - oattempt) + 2

C12_Bounds ==
    \* at most MAX_CORRECTIONS + 1 Validator calls in one visit
    /\ \A visit \in 0..LastLevel :
          Cardinality(CallsOf({"validate"}, visit)) <= MAX_CORRECTIONS + 1
    \* the visits are start_index, start_index + 1, ... in this order, and
    \* each begins with the Generator of its own tier
    /\ opc # "start" /\ opc # "http_400" =>
          /\ start_index = StartIndex[q]
          /\ level_index \in start_index..LastLevel
    /\ \A k \in 1..Len(calls) :
          /\ calls[k].visit \in start_index..level_index
          /\ IF k = 1 THEN calls[k].visit = start_index
             ELSE calls[k].visit \in {calls[k - 1].visit, calls[k - 1].visit + 1}
          /\ (k = 1 \/ calls[k].visit # calls[k - 1].visit) =>
                calls[k].kind = "generate" /\ calls[k].tier = calls[k].visit
    \* without a Valid verdict there is no decision, and the request ends
    \* in one failure: 500 after the visit of the last tier, 503 after the
    \* failure of the last tier's Generator
    /\ ValidVerdicts = {} => decision = <<>> /\ opc # "returned"
    /\ opc \in {"http_400", "http_500", "http_503"} =>
          decision = <<>> /\ ValidVerdicts = {}
    /\ opc = "http_400" => calls = <<>>
    /\ opc = "http_500" =>
          /\ level_index = LastLevel
          /\ LastExternalCall.kind \in {"validate", "repair"}
          /\ LastExternalCall.visit = LastLevel
    /\ opc = "http_503" =>
          /\ LastExternalCall.kind = "generate"
          /\ LastExternalCall.outcome = "error"
          /\ LastExternalCall.tier = LastLevel

\* C12: handle always ends (every step lowers a bound on the steps left,
\* and no step is taken after the end); in one visit of a tier the
\* Validator is called at most MAX_CORRECTIONS + 1 times; the visits go
\* through the chain in order from the classifier's start index; and
\* without a Valid verdict the request ends in one failure (500 or 503) and
\* never in a decision.
C12_HandleTerminates ==
    []C12_Bounds /\ [][opc \notin Terminal /\ C12_StepsLeft' < C12_StepsLeft]_vars

\* a request that started at the first tier and used every attempt of every
\* visit before it failed
C12_Witness ==
    /\ opc = "http_500"
    /\ start_index = 0
    /\ \A visit \in 0..LastLevel :
          Cardinality(CallsOf({"validate"}, visit)) = MAX_CORRECTIONS + 1

----------------------------------------------------------------------------
(* SecurityRules (validation/security_rules.py)                            *)

\* SecurityRules.FORBIDDEN_FLAGS, in the order of the dict
FORBIDDEN_FLAGS ==
    << <<"--script", "Script execution not allowed">>,
       <<"-sC", "Default script execution not allowed">>,
       <<"-oN", "File output not allowed">>,
       <<"-oX", "XML output not allowed">>,
       <<"-oG", "Grepable output not allowed">>,
       <<"-oA", "All format output not allowed">>,
       <<"--stylesheet", "Stylesheet loading not allowed">>,
       <<"--osscan-guess", "Aggressive OS detection not allowed">>,
       <<"--badsum", "Invalid checksum scanning not allowed">>,
       <<"-T5", "Insane timing template not allowed (may cause network issues)">> >>

\* SecurityRules.WARNING_FLAGS, in the order of the dict
WARNING_FLAGS ==
    << <<"-A", "Aggressive scan (OS detection, version detection, script scanning, traceroute)">>,
       <<"-sS", "SYN stealth scan (requires root privileges)">>,
       <<"-sU", "UDP scan (slow and resource intensive)">>,
       <<"-O", "OS detection (requires root privileges)">>,
       <<"-T4", "Aggressive timing (may be detected by IDS/IPS)">>,
       <<"--traceroute", "Traceroute enabled">>,
       <<"-sV", "Service version detection">>,
       <<"-p-", "Scanning all 65535 ports (very slow)">> >>

UNSAFE_RANGES == <<"224.0.0.0/4", "240.0.0.0/4">>

SAFE_TEST_TARGETS == <<"scanme.nmap.org", "scanme.org">>

\* the entries of a flag table that one flag starts with, as records of the
\* given severity, in table order
RECURSIVE FlagMatches(_, _, _)
FlagMatches(flag, table, severity) ==
    IF table = <<>> THEN <<>>
    ELSE (IF StartsWithAt(flag, Head(table)[1], 1)
          THEN << [flag |-> flag, reason |-> Head(table)[2], severity |-> severity] >>
          ELSE <<>>)
         \o FlagMatches(flag, Tail(table), severity)

\* flags given to evaluate_command: forbidden ones (one of them by prefix),
\* warning ones (one of them by prefix) and neutral ones
RuleFlags == {"--script=vuln", "-T5", "-sS", "-p-65535", "-Pn"}
\* targets given to evaluate_command: a test target, a domain, an address
\* outside and one inside the unsafe ranges, a network that contains them and
\* a text of the shape of a network that ipaddress refuses
RuleTargets == {"Scanme.Org", "example.com", "192.168.1.10", "240.0.0.5",
                "192.0.0.1/2", "224.0.0.1/33"}

\* the inner loops of check_forbidden_flags and check_warning_flags for one
\* flag, computed once for the flags above
ForbiddenOfKnown == [flag \in RuleFlags |-> FlagMatches(flag, FORBIDDEN_FLAGS, "critical")]
WarningsOfKnown == [flag \in RuleFlags |-> FlagMatches(flag, WARNING_FLAGS, "warning")]

ForbiddenOf(flag) ==
    IF flag \in RuleFlags THEN ForbiddenOfKnown[flag]
    ELSE FlagMatches(flag, FORBIDDEN_FLAGS, "critical")

WarningsOf(flag) ==
    IF flag \in RuleFlags THEN WarningsOfKnown[flag]
    ELSE FlagMatches(flag, WARNING_FLAGS, "warning")

RECURSIVE check_forbidden_flags_loop(_)
check_forbidden_flags_loop(flagList) ==
    IF flagList = <<>> THEN <<>>
    ELSE ForbiddenOf(Head(flagList)) \o check_forbidden_flags_loop(Tail(flagList))

check_forbidden_flags(flagList) ==
    LET result(violations) ==
            [violations |-> violations, has_violations |-> Len(violations) > 0]
    IN  result(check_forbidden_flags_loop(flagList))

RECURSIVE check_warning_flags_loop(_)
check_warning_flags_loop(flagList) ==
    IF flagList = <<>> THEN <<>>
    ELSE WarningsOf(Head(flagList)) \o check_warning_flags_loop(Tail(flagList))

check_warning_flags(flagList) ==
    LET result(warnings) == [warnings |-> warnings, has_warnings |-> Len(warnings) > 0]
    IN  result(check_warning_flags_loop(flagList))

\* re.match(r'^(\d{1,3}\.){3}\d{1,3}(\/\d{1,2})?$', t) for a text t without
\* line breaks; the ends of the four digit runs and of the prefix run
IpPatternEnds(t) ==
    LET e1 == SkipDigits(t, 1)
        e2 == SkipDigits(t, e1 + 1)
        e3 == SkipDigits(t, e2 + 1)
        e4 == SkipDigits(t, e3 + 1)
        e5 == SkipDigits(t, e4 + 1)
    IN  <<e1, e2, e3, e4, e5>>

IpPatternMatch(t) ==
    LET dot(e, k) == e[k] <= Len(t) /\ Char(t, e[k]) = "."
        match(e) ==
            /\ e[1] - 1 \in 1..3 /\ dot(e, 1)
            /\ e[2] - (e[1] + 1) \in 1..3 /\ dot(e, 2)
            /\ e[3] - (e[2] + 1) \in 1..3 /\ dot(e, 3)
            /\ e[4] - (e[3] + 1) \in 1..3
            /\ \/ e[4] = Len(t) + 1
               \/ /\ e[4] <= Len(t) /\ Char(t, e[4]) = "/"
                  /\ e[5] - (e[4] + 1) \in 1..2
                  /\ e[5] = Len(t) + 1
    IN  match(IpPatternEnds(t))

\* ipaddress: an octet is at most 255 and has no leading zero
ValidOctet(d) == (Len(d) = 1 \/ Char(d, 1) # "0") /\ ParseInt(d) <= 255

\* ipaddress.ip_network(t, strict=False) for a text of the shape of the
\* pattern above, a text without "/" read with prefix 32: the octets and the
\* prefix length, or <<>> where ipaddress raises ValueError
ip_network(t) ==
    LET network(o, prefixlen) ==
            IF (\A k \in 1..4 : ValidOctet(o[k])) /\ prefixlen <= 32
            THEN [octets |-> [k \in 1..4 |-> ParseInt(o[k])], prefixlen |-> prefixlen]
            ELSE <<>>
        parts(e) ==
            network(<< SubSeq(t, 1, e[1] - 1), SubSeq(t, e[1] + 1, e[2] - 1),
                       SubSeq(t, e[2] + 1, e[3] - 1), SubSeq(t, e[3] + 1, e[4] - 1) >>,
                    IF e[4] > Len(t) THEN 32 ELSE ParseInt(SubSeq(t, e[4] + 1, e[5] - 1)))
    IN  parts(IpPatternEnds(t))

Pow2(n) == IF n = 0 THEN 1 ELSE IF n = 1 THEN 2 ELSE IF n = 2 THEN 4 ELSE IF n = 3 THEN 8
           ELSE IF n = 4 THEN 16 ELSE IF n = 5 THEN 32 ELSE IF n = 6 THEN 64
           ELSE IF n = 7 THEN 128 ELSE 256

\* a.overlaps(b) for two networks: they agree on the bits of the shorter prefix
overlaps(a, b) ==
    LET m == IF a.prefixlen < b.prefixlen THEN a.prefixlen ELSE b.prefixlen
        w(k) == IF m - 8 * (k - 1) < 0 THEN 0
                ELSE IF m - 8 * (k - 1) > 8 THEN 8 ELSE m - 8 * (k - 1)
    IN  \A k \in 1..4 : a.octets[k] \div Pow2(8 - w(k)) = b.octets[k] \div Pow2(8 - w(k))

is_ip_in_unsafe_range(ip_str) ==
    LET found(hits) ==
            IF hits = {} THEN [is_unsafe |-> FALSE, reason |-> <<>>]
            ELSE [is_unsafe |-> TRUE,
                  reason |-> <<"Target in restricted range: " \o UNSAFE_RANGES[First(hits)]>>]
        check(target_network) ==
            IF target_network = <<>> THEN [is_unsafe |-> FALSE, reason |-> <<>>]
            ELSE found({k \in 1..Len(UNSAFE_RANGES) :
                          overlaps(target_network, ip_network(UNSAFE_RANGES[k]))})
    IN  check(ip_network(ip_str))

is_safe_test_target(target) ==
    \E k \in 1..Len(SAFE_TEST_TARGETS) : ToLower(target) = ToLower(SAFE_TEST_TARGETS[k])

\* one pass of the loop of check_targets: where the target goes
ComputeTargetVerdict(target) ==
    LET checked(range_check) ==
            IF range_check.is_unsafe
            THEN [unsafe |-> TRUE,
                  entry |-> [target |-> target, reason |-> range_check.reason[1],
                             severity |-> "high"]]
            ELSE [unsafe |-> FALSE, entry |-> [target |-> target, status |-> "allowed"]]
    IN  IF is_safe_test_target(target)
        THEN [unsafe |-> FALSE, entry |-> [target |-> target, status |-> "safe_test_target"]]
        ELSE IF IpPatternMatch(target) THEN checked(is_ip_in_unsafe_range(target))
        ELSE [unsafe |-> FALSE, entry |-> [target |-> target, status |-> "domain_allowed"]]

\* the same, computed once for the targets above
TargetVerdictOfKnown == [target \in RuleTargets |-> ComputeTargetVerdict(target)]

TargetVerdict(target) ==
    IF target \in RuleTargets THEN TargetVerdictOfKnown[target]
    ELSE ComputeTargetVerdict(target)

RECURSIVE TargetEntries(_, _)
TargetEntries(targetList, unsafe) ==
    LET entry(verdict) == IF verdict.unsafe = unsafe THEN << verdict.entry >> ELSE <<>>
    IN  IF targetList = <<>> THEN <<>>
        ELSE entry(TargetVerdict(Head(targetList))) \o TargetEntries(Tail(targetList), unsafe)

check_targets(targetList) ==
    LET result(unsafe_targets, safe_targets) ==
            [unsafe_targets |-> unsafe_targets, safe_targets |-> safe_targets,
             has_unsafe |-> Len(unsafe_targets) > 0]
    IN  result(TargetEntries(targetList, TRUE), TargetEntries(targetList, FALSE))

risk_level_of(risk_score) ==
    IF risk_score >= 70 THEN "critical"
    ELSE IF risk_score >= 40 THEN "high"
    ELSE IF risk_score >= 20 THEN "medium"
    ELSE "low"

_get_recommendation(risk_level, allow_execution) ==
    IF ~allow_execution
    THEN "BLOCK: Command contains forbidden elements and should not be executed."
    ELSE IF risk_level \in {"critical", "high"}
    THEN "CAUTION: Command has high risk factors. Review carefully before execution."
    ELSE IF risk_level = "medium"
    THEN "WARNING: Command has some risk factors. Proceed with caution."
    ELSE "ALLOW: Command appears safe to execute."

\* a capping step that leaves the score as it is
cap_risk_score_NoCap(risk_score) == risk_score

\* a decision that also blocks on warnings
allow_execution_of_StrictOnWarnings(forbidden_result, target_result) ==
    /\ ~forbidden_result.has_violations
    /\ ~target_result.has_unsafe
    /\ Len(check_warning_flags(eval_flags).warnings) = 0

\* a score that weighs a forbidden flag like a warning
raw_risk_score_LightForbidden(forbidden_result, warning_result, target_result) ==
    Len(forbidden_result.violations) * 10
    + Len(warning_result.warnings) * 10
    + Len(target_result.unsafe_targets) * 30

\* the score before the cap
raw_risk_score(forbidden_result, warning_result, target_result) ==
    Len(forbidden_result.violations) * 40
    + Len(warning_result.warnings) * 10
    + Len(target_result.unsafe_targets) * 30

\* max(0, min(100, risk_score))
cap_risk_score(risk_score) ==
    IF risk_score > 100 THEN 100 ELSE IF risk_score < 0 THEN 0 ELSE risk_score

allow_execution_of(forbidden_result, target_result) ==
    ~forbidden_result.has_violations /\ ~target_result.has_unsafe

evaluate_command(flagList, targetList) ==
    LET result(forbidden_result, warning_result, target_result, risk_score, risk_level,
               allow_execution) ==
            [allowed |-> allow_execution,
             risk_score |-> risk_score,
             risk_level |-> risk_level,
             risk_factors |-> (IF forbidden_result.has_violations
                               THEN <<"forbidden_flags">> ELSE <<>>)
                              \o (IF warning_result.has_warnings
                                  THEN <<"warning_flags">> ELSE <<>>)
                              \o (IF target_result.has_unsafe
                                  THEN <<"unsafe_targets">> ELSE <<>>),
             forbidden_flags |-> forbidden_result,
             warnings |-> warning_result,
             target_validation |-> target_result,
             recommendation |-> _get_recommendation(risk_level, allow_execution)]
        levelled(forbidden_result, warning_result, target_result, risk_score) ==
            result(forbidden_result, warning_result, target_result, risk_score,
                   risk_level_of(risk_score),
                   allow_execution_of(forbidden_result, target_result))
        scored(forbidden_result, warning_result, target_result) ==
            levelled(forbidden_result, warning_result, target_result,
                     cap_risk_score(raw_risk_score(forbidden_result, warning_result,
                                                   target_result)))
    IN  scored(check_forbidden_flags(flagList), check_warning_flags(flagList),
               check_targets(targetList))

MaxFlags == 4
MaxTargets == 2

SeqsUpTo(S, n) == UNION {[1..k -> S] : k \in 0..n}

InitRisk ==
    /\ agentIdle
    /\ corrIdle
    /\ apiIdle
    /\ serverIdle
    /\ analyzerIdle
    /\ OrchIdle
    /\ valIdle
    /\ simIdle
    /\ rpc = "start"
    /\ eval_flags \in SeqsUpTo(RuleFlags, MaxFlags)
    /\ eval_targets \in SeqsUpTo(RuleTargets, MaxTargets)
    /\ evaluation = <<>>

EvaluateCommand ==
    /\ rpc = "start"
    /\ evaluation' = evaluate_command(eval_flags, eval_targets)
    /\ rpc' = "returned"
    /\ UNCHANGED othersOfRisk
    /\ UNCHANGED <<eval_flags, eval_targets>>

NextRisk == EvaluateCommand

SpecRisk == InitRisk /\ [][NextRisk]_vars

----------------------------------------------------------------------------
(* Risk assessment: C13, C14, C15                                          *)

\* the number of entries of a flag table that a flag starts with
EntriesMatching(flag, table) ==
    Cardinality({k \in 1..Len(table) : StartsWithAt(flag, table[k][1], 1)})

ForbiddenEntries == [flag \in RuleFlags |-> EntriesMatching(flag, FORBIDDEN_FLAGS)]
WarningEntries == [flag \in RuleFlags |-> EntriesMatching(flag, WARNING_FLAGS)]

\* the targets that are an address or a network overlapping an unsafe range
\* and are not a test target
UnsafeTargets ==
    {target \in RuleTargets : /\ ~is_safe_test_target(target)
                              /\ IpPatternMatch(target)
                              /\ is_ip_in_unsafe_range(target).is_unsafe}

RECURSIVE SumOver(_, _)
SumOver(count, list) ==
    IF list = <<>> THEN 0 ELSE count[Head(list)] + SumOver(count, Tail(list))

\* F: the forbidden entries matched, summed over the flag list
ForbiddenCount == SumOver(ForbiddenEntries, eval_flags)

\* W: the warning entries matched, summed over the flag list
WarningCount == SumOver(WarningEntries, eval_flags)

\* U: the positions of the target list that hold an unsafe target
UnsafeCount == Cardinality({k \in 1..Len(eval_targets) : eval_targets[k] \in UnsafeTargets})

WeightedSum == 40 * ForbiddenCount + 10 * WarningCount + 30 * UnsafeCount

\* C13: for every flag list and target list the risk score returned by
\* evaluate_command is min(100, 40*F + 10*W + 30*U), and it lies in 0..100
C13_RiskScoreFormula ==
    rpc = "returned" =>
        /\ evaluation.risk_score = (IF WeightedSum < 100 THEN WeightedSum ELSE 100)
        /\ evaluation.risk_score \in 0..100
        /\ Len(evaluation.forbidden_flags.violations) = ForbiddenCount
        /\ Len(evaluation.warnings.warnings) = WarningCount
        /\ Len(evaluation.target_validation.unsafe_targets) = UnsafeCount

\* a returned assessment whose weighted sum is above 100 and is capped, with
\* all three kinds of finding present
C13_Witness ==
    /\ rpc = "returned"
    /\ WeightedSum > 100
    /\ ForbiddenCount > 0 /\ WarningCount > 0 /\ UnsafeCount > 0
    /\ evaluation.risk_score = 100

\* C14: allowed is true exactly when there is no forbidden-flag violation and
\* no unsafe target; warnings never block, whatever score and level they give
C14_AllowedIffNoViolation ==
    rpc = "returned" =>
        /\ evaluation.allowed <=> (ForbiddenCount = 0 /\ UnsafeCount = 0)
        /\ (ForbiddenCount = 0 /\ UnsafeCount = 0 /\ WarningCount > 0)
              => /\ evaluation.allowed
                 /\ evaluation.risk_score = 10 * WarningCount
                 /\ evaluation.risk_level = risk_level_of(10 * WarningCount)

\* a command allowed although its warnings alone make its risk level high
C14_Witness ==
    /\ rpc = "returned"
    /\ evaluation.allowed
    /\ WarningCount >= 4
    /\ evaluation.risk_level = "high"

----------------------------------------------------------------------------
(* validate_nmap_command (validation/validator.py)                         *)

\* the backquote character
Backtick == SubSeq("`'", 1, 1)

\* injection_pattern (a character class of ; & | and the backquote, or one of
\* "$(", "||", "&&", "<", ">") matches at index i
InjectionAt(text, i) ==
    \/ Char(text, i) \in {";", "&", "|", Backtick, "<", ">"}
    \/ StartsWithAt(text, "$(", i)

\* re.search(injection_pattern, text)
injection_search(text) == \E i \in 1..Len(text) : InjectionAt(text, i)

(* shlex.split(text): the POSIX-mode tokenizer with whitespace_split and    *)
(* without comments. state is " " between tokens, "a" inside a word, a      *)
(* quote character inside quotes and "\\" after an escape character;        *)
(* escapedstate is the state an escape returns to. The result is the list   *)
(* of tokens, or the message of the ValueError raised.                      *)
RECURSIVE shlex_read(_, _, _, _, _, _)
shlex_read(text, i, state, escapedstate, token, done) ==
    IF i > Len(text)
    THEN IF state \in {"'", "\""} THEN [error |-> <<"No closing quotation">>, tokens |-> <<>>]
         ELSE IF state = "\\" THEN [error |-> <<"No escaped character">>, tokens |-> <<>>]
         ELSE IF state = "a" THEN [error |-> <<>>, tokens |-> Append(done, token)]
         ELSE [error |-> <<>>, tokens |-> done]
    ELSE LET c == Char(text, i)
         IN  IF state = " "
             THEN IF c \in {" ", "\t", "\r", "\n"}
                  THEN shlex_read(text, i + 1, " ", escapedstate, "", done)
                  ELSE IF c = "\\" THEN shlex_read(text, i + 1, "\\", "a", "", done)
                  ELSE IF c \in {"'", "\""} THEN shlex_read(text, i + 1, c, escapedstate, "", done)
                  ELSE shlex_read(text, i + 1, "a", escapedstate, c, done)
             ELSE IF state \in {"'", "\""}
             THEN IF c = state THEN shlex_read(text, i + 1, "a", escapedstate, token, done)
                  ELSE IF c = "\\" /\ state = "\""
                  THEN shlex_read(text, i + 1, "\\", state, token, done)
                  ELSE shlex_read(text, i + 1, state, escapedstate, token \o c, done)
             ELSE IF state = "\\"
             THEN IF escapedstate \in {"'", "\""} /\ c # "\\" /\ c # escapedstate
                  THEN shlex_read(text, i + 1, escapedstate, escapedstate,
                                  token \o "\\" \o c, done)
                  ELSE shlex_read(text, i + 1, escapedstate, escapedstate, token \o c, done)
             ELSE \* state = "a"
                  IF c \in {" ", "\t", "\r", "\n"}
                  THEN shlex_read(text, i + 1, " ", escapedstate, "", Append(done, token))
                  ELSE IF c \in {"'", "\""} THEN shlex_read(text, i + 1, c, escapedstate, token, done)
                  ELSE IF c = "\\" THEN shlex_read(text, i + 1, "\\", "a", token, done)
                  ELSE shlex_read(text, i + 1, "a", escapedstate, token \o c, done)

shlex_split(text) == shlex_read(text, 1, " ", " ", "", <<>>)

Alpha == {Upper[k] : k \in 1..26} \cup {Lower[k] : k \in 1..26}

\* the text between two dots of t, from index i on
LabelEnd(t, i) == IF \E j \in i..Len(t) : Char(t, j) = "."
                  THEN First({j \in i..Len(t) : Char(t, j) = "."}) ELSE Len(t) + 1

\* the text from index i on is (\.[A-Za-z]{2,})+ up to the end
RECURSIVE DomainTail(_, _)
DomainTail(t, i) ==
    /\ i <= Len(t) /\ Char(t, i) = "."
    /\ LabelEnd(t, i + 1) - (i + 1) >= 2
    /\ \A j \in (i + 1)..(LabelEnd(t, i + 1) - 1) : Char(t, j) \in Alpha
    /\ LabelEnd(t, i + 1) = Len(t) + 1 \/ DomainTail(t, LabelEnd(t, i + 1))

\* re.match(r'^(?!-)[A-Za-z0-9-]{1,63}(?<!-)(\.[A-Za-z]{2,})+$', t) for a
\* text without line breaks
DomainPatternMatch(t) ==
    LET e == LabelEnd(t, 1)
    IN  /\ e - 1 \in 1..63
        /\ \A j \in 1..(e - 1) : Char(t, j) \in Alpha \cup Digits \cup {"-"}
        /\ Char(t, 1) # "-" /\ Char(t, e - 1) # "-"
        /\ DomainTail(t, e)

\* ', '.join(list)
RECURSIVE JoinComma(_)
JoinComma(list) ==
    IF list = <<>> THEN ""
    ELSE IF Len(list) = 1 THEN list[1]
    ELSE list[1] \o ", " \o JoinComma(Tail(list))

\* dict.update: the entries of new replace those of old
Updated(old, new) == new @@ old

\* flags whose argument is the next word (line 80)
FLAGS_WITH_ARGUMENT == {"-p", "--ports", "--script", "--script-args", "-oA", "-oN", "-oX"}

\* the loop of lines 70-83 over the words after the first
RECURSIVE separate(_, _, _, _)
separate(words, skip_next, flagList, targetList) ==
    IF words = <<>> THEN [flags |-> flagList, targets |-> targetList]
    ELSE IF skip_next THEN separate(Tail(words), FALSE, flagList, targetList)
    ELSE IF StartsWithAt(Head(words), "-", 1)
    THEN separate(Tail(words), Head(words) \in FLAGS_WITH_ARGUMENT,
                  Append(flagList, Head(words)), targetList)
    ELSE separate(Tail(words), FALSE, flagList, Append(targetList, Head(words)))

\* lines 98-101
invalid_targets_of(targetList) ==
    SelectSeq(targetList, LAMBDA target : ~(IpPatternMatch(target) \/ DomainPatternMatch(target)))

\* lines 131-137
RECURSIVE IssueLines(_, _)
IssueLines(entries, kind) ==
    IF entries = <<>> THEN <<>>
    ELSE << (IF kind = "flag"
             THEN "Forbidden flag " \o Head(entries).flag
             ELSE "Unsafe target " \o Head(entries).target)
            \o ": " \o Head(entries).reason >>
         \o IssueLines(Tail(entries), kind)

\* lines 149-152
RECURSIVE WarningLines(_)
WarningLines(entries) ==
    IF entries = <<>> THEN <<>>
    ELSE << Head(entries).flag \o ": " \o Head(entries).reason >>
         \o WarningLines(Tail(entries))

\* what happens at lines 164-198 when execute_real is set: nmap is missing,
\* the process ends with a return code, the timeout expires, or subprocess.run
\* raises another exception
ProcOutcomes ==
    {[kind |-> "missing"],
     [kind |-> "completed", returncode |-> 0, stdout |-> "Nmap done", stderr |-> ""],
     [kind |-> "completed", returncode |-> 1, stdout |-> "", stderr |-> "QUITTING!"],
     [kind |-> "timeout"],
     [kind |-> "exception", message |-> "[Errno 13] Permission denied: 'nmap'"]}

\* the text every correction of the correction tables gives for the
\* commands of the agent, and every autonomous repair
CorrectionTexts ==
    {_generate_correction(c, error_mappings[k]).corrected_command :
        c \in Commands, k \in 1..Len(error_mappings)}
    \cup {attempt_autonomous_repair(c, e)[1].repaired_command :
            <<c, e>> \in {p \in Commands \X AUTONOMOUS_FIXES_KEYS :
                            attempt_autonomous_repair(p[1], p[2]) # <<>>}}

\* texts given to validate_nmap_command
ValidatorTexts ==
    {"", "   ",
     "nmap -sV scanme.nmap.org", " NMAP -sS -T4 10.0.0.5 ", "ping 10.0.0.1", "nmap -sV",
     "nmap -p 80 999.1.1.1", "nmap 224.0.0.1/33", "nmap 224.0.0.5",
     "nmap --script vuln example.com", "nmap -sV bad_target",
     "nmap -sV \"scanme.nmap.org", "nmap -sV 'scanme.nmap.org", "nmap -sV scanme.nmap.org\\",
     "nmap -sV scanme.nmap.org; id", "nmap -sV scanme.nmap.org && id",
     "nmap -sV scanme.nmap.org | tee out", "nmap -sV scanme.nmap.org > out",
     "nmap -iL < list scanme.nmap.org", "nmap $(id).example.com",
     "nmap " \o Backtick \o "id" \o Backtick \o ".example.com",
     "nmap -p '80;81' scanme.nmap.org", "nmap -p \"80|81\" scanme.nmap.org",
     "nmap --script-args 'a>b' scanme.nmap.org", "nmap -p \"80&\" 'scanme.nmap.org",
     "nmap -T5 -p 80 scanme.nmap.org", "nmap -p -T5 scanme.nmap.org",
     "nmap --ports -sC 10.0.0.5"}
    \cup CorrectionTexts

InitValidator ==
    /\ agentIdle
    /\ corrIdle
    /\ apiIdle
    /\ serverIdle
    /\ analyzerIdle
    /\ OrchIdle
    /\ riskIdle
    /\ simIdle
    /\ vpc = "start"
    /\ vcmd \in ValidatorTexts
    /\ execute_real \in BOOLEAN
    /\ apply_security_rules \in BOOLEAN
    /\ vparts = <<>>
    /\ vflags = <<>>
    /\ vtargets = <<>>
    /\ vresponse = [command |-> vcmd, valid |-> FALSE, severity |-> "high"]
    /\ vlog = <<>>

\* lines 22-46 without the injection check
CheckInput_NoInjectionCheck ==
    /\ vpc = "start"
    /\ IF vcmd = ""
       THEN /\ vresponse' = Updated(vresponse, [error |-> "Empty or invalid command."])
            /\ vpc' = "returned"
            /\ UNCHANGED <<vcmd, vlog>>
       ELSE /\ vcmd' = Strip(vcmd)
            /\ vpc' = "parse"
            /\ UNCHANGED <<vresponse, vlog>>
    /\ UNCHANGED <<execute_real, apply_security_rules, vparts, vflags, vtargets>>
    /\ UNCHANGED othersOfValidator

\* lines 22-46: empty input, strip, injection check
CheckInput ==
    /\ vpc = "start"
    /\ IF vcmd = ""
       THEN /\ vresponse' = Updated(vresponse, [error |-> "Empty or invalid command."])
            /\ vpc' = "returned"
            /\ UNCHANGED <<vcmd, vlog>>
       ELSE /\ vcmd' = Strip(vcmd)
            /\ vlog' = Append(vlog, "re.search")
            /\ IF injection_search(Strip(vcmd))
               THEN /\ vresponse' = Updated(vresponse,
                                            [error |-> "Possible command injection detected.",
                                             severity |-> "critical"])
                    /\ vpc' = "returned"
               ELSE /\ vpc' = "parse"
                    /\ UNCHANGED vresponse
    /\ UNCHANGED <<execute_real, apply_security_rules, vparts, vflags, vtargets>>
    /\ UNCHANGED othersOfValidator

\* lines 51-62 without the handler of ValueError
Parse_NoExcept ==
    /\ vpc = "parse"
    /\ vlog' = Append(vlog, "shlex.split")
    /\ \E result \in {shlex_split(vcmd)} :
          IF result.error # <<>>
          THEN /\ vpc' = "raised"
               /\ UNCHANGED <<vparts, vresponse>>
          ELSE /\ vparts' = result.tokens
               /\ IF result.tokens = <<>> \/ ToLower(result.tokens[1]) # "nmap"
                  THEN /\ vresponse' = Updated(vresponse,
                                               [error |-> "Command must start with 'nmap'."])
                       /\ vpc' = "returned"
                  ELSE /\ vpc' = "separate"
                       /\ UNCHANGED vresponse
    /\ UNCHANGED <<vcmd, execute_real, apply_security_rules, vflags, vtargets>>
    /\ UNCHANGED othersOfValidator

\* lines 51-62: shlex.split, and the test of the first word
Parse ==
    /\ vpc = "parse"
    /\ vlog' = Append(vlog, "shlex.split")
    /\ \E result \in {shlex_split(vcmd)} :
          IF result.error # <<>>
          THEN /\ vresponse' = Updated(vresponse,
                                       [error |-> "Command parsing failed: " \o result.error[1]])
               /\ vpc' = "returned"
               /\ UNCHANGED vparts
          ELSE /\ vparts' = result.tokens
               /\ IF result.tokens = <<>> \/ ToLower(result.tokens[1]) # "nmap"
                  THEN /\ vresponse' = Updated(vresponse,
                                               [error |-> "Command must start with 'nmap'."])
                       /\ vpc' = "returned"
                  ELSE /\ vpc' = "separate"
                       /\ UNCHANGED vresponse
    /\ UNCHANGED <<vcmd, execute_real, apply_security_rules, vflags, vtargets>>
    /\ UNCHANGED othersOfValidator

\* lines 67-119: flags and targets, target formats, the base response
Separate ==
    /\ vpc = "separate"
    /\ \E sep \in {separate(Tail(vparts), FALSE, <<>>, <<>>)} :
          /\ vflags' = sep.flags
          /\ vtargets' = sep.targets
          /\ IF sep.targets = <<>>
             THEN /\ vresponse' = Updated(vresponse, [error |-> "No scan target specified.",
                                                      severity |-> "medium"])
                  /\ vpc' = "returned"
             ELSE IF invalid_targets_of(sep.targets) # <<>>
             THEN /\ vresponse' =
                        Updated(vresponse,
                                [error |-> "Invalid target format: "
                                           \o JoinComma(invalid_targets_of(sep.targets)),
                                 severity |-> "medium"])
                  /\ vpc' = "returned"
             ELSE /\ vresponse' = Updated(vresponse, [valid |-> TRUE,
                                                      syntax |-> "nmap [flags] <target>",
                                                      flags |-> sep.flags,
                                                      targets |-> sep.targets,
                                                      severity |-> "low"])
                  /\ vpc' = "rules"
    /\ UNCHANGED <<vcmd, execute_real, apply_security_rules, vparts, vlog>>
    /\ UNCHANGED othersOfValidator

\* lines 125-158: the security rules
ApplyRules ==
    /\ vpc = "rules"
    /\ IF ~apply_security_rules
       THEN /\ vpc' = "execute"
            /\ UNCHANGED <<vresponse, vlog>>
       ELSE \E security \in {evaluate_command(vflags, vtargets)} :
            /\ vlog' = Append(vlog, "evaluate_command")
            /\ IF ~security.allowed
               THEN /\ vresponse' =
                          Updated(Updated(vresponse, [security |-> security]),
                                  [valid |-> FALSE,
                                   blocked_by_security |-> TRUE,
                                   security_issues |->
                                       IssueLines(security.forbidden_flags.violations, "flag")
                                       \o IssueLines(security.target_validation.unsafe_targets,
                                                     "target"),
                                   error |-> "Command blocked by security rules.",
                                   severity |-> security.risk_level])
                    /\ vpc' = "returned"
               ELSE /\ vresponse' =
                          Updated(Updated(Updated(vresponse, [security |-> security]),
                                          IF security.warnings.has_warnings
                                          THEN [warnings |->
                                                  WarningLines(security.warnings.warnings)]
                                          ELSE <<>>),
                                  [risk_score |-> cap_risk_score(security.risk_score),
                                   risk_level |-> security.risk_level,
                                   recommendation |-> security.recommendation])
                    /\ vpc' = "execute"
    /\ UNCHANGED <<vcmd, execute_real, vparts, vflags, vtargets, apply_security_rules>>
    /\ UNCHANGED othersOfValidator

\* lines 163-205: the optional execution
Execute ==
    /\ vpc = "execute"
    /\ IF ~execute_real
       THEN /\ vresponse' = Updated(vresponse,
                                    [executed |-> FALSE,
                                     execution_test |-> "[MOCK] Would execute: " \o vcmd])
            /\ UNCHANGED vlog
       ELSE \E proc \in ProcOutcomes :
            /\ vlog' = IF proc.kind = "missing" THEN vlog
                       ELSE Append(vlog, "subprocess.run")
            /\ vresponse' =
                  Updated(vresponse,
                     CASE proc.kind = "missing" ->
                            [executed |-> FALSE,
                             execution_error |-> "Nmap is not installed or not in PATH."]
                       [] proc.kind = "completed" ->
                            Updated([executed |-> TRUE, return_code |-> proc.returncode,
                                     stdout |-> proc.stdout, stderr |-> proc.stderr],
                                    IF proc.returncode # 0
                                    THEN [execution_warning |-> "Non-zero exit code returned."]
                                    ELSE <<>>)
                       [] proc.kind = "timeout" ->
                            [executed |-> FALSE,
                             execution_error |-> "Execution timed out after 60s."]
                       [] proc.kind = "exception" ->
                            [executed |-> FALSE, execution_error |-> proc.message])
    /\ vpc' = "returned"
    /\ UNCHANGED <<vcmd, execute_real, apply_security_rules, vparts, vflags, vtargets>>
    /\ UNCHANGED othersOfValidator

NextValidator ==
    \/ CheckInput
    \/ Parse
    \/ Separate
    \/ ApplyRules
    \/ Execute

SpecValidator == InitValidator /\ [][NextValidator]_vars

----------------------------------------------------------------------------
(* Validator: C16, C17                                                     *)

\* the metacharacters of chaining and injection
Metacharacters == {";", "&", "|", Backtick, "$(", "<", ">"}

ContainsMetacharacter(text) == \E m \in Metacharacters : Contains(text, m)

Logged(name) == \E k \in 1..Len(vlog) : vlog[k] = name

\* C16: a command text that contains a shell metacharacter, inside quotes or
\* not, is rejected before it is tokenized: the words are never split, the
\* risk engine is never invoked, nothing is executed, and the outcome returned
\* is invalid
C16_InjectionRejected ==
    ContainsMetacharacter(vcmd) =>
        /\ vpc \in {"start", "returned"}
        /\ ~Logged("shlex.split") /\ ~Logged("evaluate_command") /\ ~Logged("subprocess.run")
        /\ vparts = <<>> /\ vflags = <<>> /\ vtargets = <<>>
        /\ vpc = "returned" =>
              /\ vresponse.valid = FALSE
              /\ vresponse.error = "Possible command injection detected."
              /\ vresponse.severity = "critical"
              /\ DOMAIN vresponse = {"command", "valid", "severity", "error"}

\* a returned rejection of a text whose metacharacter stands inside quotes and
\* that is a valid command otherwise, with execution asked for
C16_Witness ==
    /\ vpc = "returned"
    /\ vcmd = "nmap -p '80;81' scanme.nmap.org"
    /\ execute_real
    /\ vlog = <<"re.search">>
    /\ vresponse.valid = FALSE

\* C17: for every command text, those produced by corrections included,
\* parsing and risk scoring end with a validation outcome and never raise
C17_NeverRaises ==
    /\ vpc \in {"idle", "start", "parse", "separate", "rules", "execute", "returned"}
    /\ vpc = "returned" =>
          /\ vresponse.valid \in BOOLEAN
          /\ vresponse.valid <=> "error" \notin DOMAIN vresponse
          /\ vresponse.valid => "executed" \in DOMAIN vresponse

\* a returned outcome for a target of the shape of a network that is no
\* valid network: it was risk-scored and found valid
C17_Witness ==
    /\ vpc = "returned"
    /\ vcmd = "nmap 224.0.0.1/33"
    /\ Logged("evaluate_command")
    /\ vresponse.valid
    /\ vresponse.security.target_validation.has_unsafe = FALSE

\* a returned outcome for a text with an unbalanced quote
C17_UnbalancedQuoteReturned ==
    /\ vpc = "returned"
    /\ vcmd = "nmap -sV \"scanme.nmap.org"
    /\ vresponse.error = "Command parsing failed: No closing quotation"

\* a returned outcome for a text produced by a correction
C17_CorrectionReturned ==
    /\ vpc = "returned"
    /\ vcmd \in CorrectionTexts \ Commands
    /\ Logged("evaluate_command")

----------------------------------------------------------------------------
(* ExecutionSimulator.simulate_execution, statement by statement, next to  *)
(* the sandboxed process it starts. The clock counts ticks; self.timeout   *)
(* (300 s) is SimTimeout ticks. A report holds the fields that the callers *)
(* of the simulator read: command, execution, errors, warnings, metrics.   *)

\* self.timeout, in ticks of the clock
SimTimeout == 1
\* the last tick of the clock
MaxClock == 2
\* the most lines a process writes
MaxOutput == 2

\* a match of r'(\d+)/tcp\s+open' at index i of s
TcpOpenAt(s, i) ==
    /\ IsDigit(Char(s, i))
    /\ StartsWithAt(s, "/tcp", SkipDigits(s, i))
    /\ SkipSpaces(s, SkipDigits(s, i) + 4) > SkipDigits(s, i) + 4
    /\ StartsWithAt(s, "open", SkipSpaces(s, SkipDigits(s, i) + 4))

\* the matches of r'(\d+)% done' in s
ProgressHits(s) ==
    {i \in 1..Len(s) : IsDigit(Char(s, i)) /\ StartsWithAt(s, "% done", SkipDigits(s, i))}

\* ExecutionSimulator._parse_runtime_output: the metrics after one line
_parse_runtime_output(text, metrics) ==
    [scan_progress |->
        IF ProgressHits(text) # {}
        THEN << ParseInt(SubSeq(text, First(ProgressHits(text)),
                                SkipDigits(text, First(ProgressHits(text))) - 1)) >>
        ELSE metrics.scan_progress,
     hosts_up |-> metrics.hosts_up + (IF Contains(text, "Host is up") THEN 1 ELSE 0),
     ports_scanned |-> metrics.ports_scanned
                       + (IF \E i \in 1..Len(text) : TcpOpenAt(text, i) THEN 1 ELSE 0),
     services_detected |-> metrics.services_detected
                           + (IF Contains(text, "Service Info:") THEN 1 ELSE 0)]

\* the else branch of _parse_error_output (lines 267-273)
WarningOf(text) ==
    IF \E word \in {"warning", "warn", "caution"} : Contains(ToLower(text), word)
    THEN << [message |-> Strip(text)] >> ELSE <<>>

\* what the two parsers make of the lines below, computed once
RuntimeParsed ==
    [text \in Lines |-> _parse_runtime_output(text, [scan_progress |-> <<>>, hosts_up |-> 0,
                                                   ports_scanned |-> 0,
                                                   services_detected |-> 0])]
WarningParsed == [text \in Lines |-> IF ParsedLine[text] = <<>> THEN WarningOf(text) ELSE <<>>]

\* what a process writes, line by line, and the stream it writes to
ScriptEvents ==
    {[stream |-> "stdout", text |-> "Host is up (0.010s latency)."],
     [stream |-> "stdout", text |-> "Failed to resolve scanme.nmap.org."],
     [stream |-> "stderr", text |-> "sendto in send_ip_packet_sd: Operation not permitted"],
     [stream |-> "stderr", text |-> "WARNING: No targets were specified, so 0 hosts scanned."]}

\* a process: the lines it writes, and the code it exits with when it is left
\* alone (<<>>: it never exits by itself)
RunnerScripts ==
    [events : UNION {[1..n -> ScriptEvents] : n \in 0..MaxOutput},
     exit : {<<0>>, <<1>>, <<>>}]

NoReport ==
    [command |-> "", execution |-> [completed |-> FALSE, exit_code |-> <<>>],
     errors |-> <<>>, warnings |-> <<>>,
     metrics |-> [scan_progress |-> <<>>, hosts_up |-> 0, ports_scanned |-> 0,
                  services_detected |-> 0]]

InitSim ==
    /\ agentIdle
    /\ corrIdle
    /\ apiIdle
    /\ serverIdle
    /\ analyzerIdle
    /\ OrchIdle
    /\ riskIdle
    /\ valIdle
    /\ spc = "start"
    /\ clock = 0
    /\ timeout_time = 0
    /\ proc_script \in RunnerScripts
    /\ written = 0
    /\ proc_status = "none"
    /\ proc_returncode = <<>>
    /\ stdout_pipe = <<>>
    /\ stderr_pipe = <<>>
    /\ stdout_lines = <<>>
    /\ stderr_lines = <<>>
    /\ sim_result = [NoReport EXCEPT !.command = "nmap -sS -p 80 scanme.nmap.org"]

\* lines 117-136: Popen starts the process, or raises (lines 186-194)
StartProcess ==
    /\ spc = "start"
    /\ \/ /\ proc_status' = "running"
          /\ timeout_time' = clock + SimTimeout
          /\ spc' = "check_timeout"
          /\ UNCHANGED sim_result
       \/ /\ sim_result' =
                [sim_result EXCEPT
                    !.errors = Append(@, [type |-> "unknown", subtype |-> "",
                                          message |-> "Simulation error: docker",
                                          severity |-> "critical"]),
                    !.execution.completed = FALSE]
          /\ spc' = "returned"
          /\ UNCHANGED <<proc_status, timeout_time>>
    /\ UNCHANGED <<clock, proc_script, written, proc_returncode, stdout_pipe, stderr_pipe,
                   stdout_lines, stderr_lines>>
    /\ UNCHANGED othersOfSim

\* lines 140-147: the timeout check, process.terminate()
CheckTimeout ==
    /\ spc = "check_timeout"
    /\ IF clock > timeout_time
       THEN /\ proc_status' = IF proc_status = "running" THEN "terminating" ELSE proc_status
            /\ sim_result' =
                  [sim_result EXCEPT
                      !.errors = Append(@, [type |-> "timeout", subtype |-> "",
                                            message |-> "Execution timed out after 300s",
                                            severity |-> "critical"])]
            /\ spc' = "communicate"
       ELSE /\ spc' = "poll"
            /\ UNCHANGED <<proc_status, sim_result>>
    /\ UNCHANGED <<clock, timeout_time, proc_script, written, proc_returncode, stdout_pipe,
                   stderr_pipe, stdout_lines, stderr_lines>>
    /\ UNCHANGED othersOfSim

\* lines 150-151: process.poll()
Poll ==
    /\ spc = "poll"
    /\ spc' = IF proc_status = "exited" THEN "communicate" ELSE "read_stdout"
    /\ UNCHANGED <<clock, timeout_time, proc_script, written, proc_status, proc_returncode,
                   stdout_pipe, stderr_pipe, stdout_lines, stderr_lines, sim_result>>
    /\ UNCHANGED othersOfSim

\* lines 154-157: process.stdout.readline() returns when a line or the end of
\* the stream is there
ReadStdout ==
    /\ spc = "read_stdout"
    /\ stdout_pipe # <<>> \/ proc_status = "exited"
    /\ IF stdout_pipe # <<>>
       THEN /\ stdout_lines' = Append(stdout_lines, Strip(Head(stdout_pipe)))
            /\ stdout_pipe' = Tail(stdout_pipe)
            /\ sim_result' =
                  [sim_result EXCEPT
                      !.metrics = [scan_progress |->
                                     IF RuntimeParsed[Head(stdout_pipe)].scan_progress # <<>>
                                     THEN RuntimeParsed[Head(stdout_pipe)].scan_progress
                                     ELSE @.scan_progress,
                                   hosts_up |-> @.hosts_up
                                       + RuntimeParsed[Head(stdout_pipe)].hosts_up,
                                   ports_scanned |-> @.ports_scanned
                                       + RuntimeParsed[Head(stdout_pipe)].ports_scanned,
                                   services_detected |-> @.services_detected
                                       + RuntimeParsed[Head(stdout_pipe)].services_detected]]
       ELSE UNCHANGED <<stdout_lines, stdout_pipe, sim_result>>
    /\ spc' = "read_stderr"
    /\ UNCHANGED <<clock, timeout_time, proc_script, written, proc_status, proc_returncode,
                   stderr_pipe, stderr_lines>>
    /\ UNCHANGED othersOfSim

\* lines 159-162: process.stderr.readline() and _parse_error_output
ReadStderr ==
    /\ spc = "read_stderr"
    /\ stderr_pipe # <<>> \/ proc_status = "exited"
    /\ IF stderr_pipe # <<>>
       THEN /\ stderr_lines' = Append(stderr_lines, Strip(Head(stderr_pipe)))
            /\ stderr_pipe' = Tail(stderr_pipe)
            /\ sim_result' =
                  [sim_result EXCEPT
                      !.errors = @ \o ParsedLine[Head(stderr_pipe)],
                      !.warnings = @ \o WarningParsed[Head(stderr_pipe)]]
       ELSE UNCHANGED <<stderr_lines, stderr_pipe, sim_result>>
    /\ spc' = "sleep"
    /\ UNCHANGED <<clock, timeout_time, proc_script, written, proc_status, proc_returncode,
                   stdout_pipe, stdout_lines>>
    /\ UNCHANGED othersOfSim

\* line 164: time.sleep(0.1)
Sleep ==
    /\ spc = "sleep"
    /\ spc' = "check_timeout"
    /\ UNCHANGED <<clock, timeout_time, proc_script, written, proc_status, proc_returncode,
                   stdout_pipe, stderr_pipe, stdout_lines, stderr_lines, sim_result>>
    /\ UNCHANGED othersOfSim

\* lines 167-184: process.communicate() returns when the process has exited;
\* what was left in the pipes joins the line lists; exit code, completion and
\* _analyze_complete_output
Communicate ==
    /\ spc = "communicate"
    /\ proc_status = "exited"
    /\ stdout_lines' = stdout_lines \o stdout_pipe
    /\ stderr_lines' = stderr_lines \o stderr_pipe
    /\ stdout_pipe' = <<>>
    /\ stderr_pipe' = <<>>
    /\ sim_result' =
          [sim_result EXCEPT
              !.execution = [completed |-> TRUE, exit_code |-> proc_returncode],
              !.errors = @ \o (IF proc_returncode[1] # 0
                               THEN _interpret_exit_code(proc_returncode[1]) ELSE <<>>)]
    /\ spc' = "returned"
    /\ UNCHANGED <<clock, timeout_time, proc_script, written, proc_status, proc_returncode>>
    /\ UNCHANGED othersOfSim

\* the process writes its next line
RunnerWrites ==
    /\ proc_status = "running"
    /\ written < Len(proc_script.events)
    /\ written' = written + 1
    /\ IF proc_script.events[written + 1].stream = "stdout"
       THEN /\ stdout_pipe' = Append(stdout_pipe, proc_script.events[written + 1].text)
            /\ UNCHANGED stderr_pipe
       ELSE /\ stderr_pipe' = Append(stderr_pipe, proc_script.events[written + 1].text)
            /\ UNCHANGED stdout_pipe
    /\ UNCHANGED <<spc, clock, timeout_time, proc_script, proc_status, proc_returncode,
                   stdout_lines, stderr_lines, sim_result>>
    /\ UNCHANGED othersOfSim

\* the process exits by itself
RunnerExits ==
    /\ proc_status = "running"
    /\ written = Len(proc_script.events)
    /\ proc_script.exit # <<>>
    /\ proc_status' = "exited"
    /\ proc_returncode' = proc_script.exit
    /\ UNCHANGED <<spc, clock, timeout_time, proc_script, written, stdout_pipe, stderr_pipe,
                   stdout_lines, stderr_lines, sim_result>>
    /\ UNCHANGED othersOfSim

\* the process dies of the signal that process.terminate() sent
RunnerKilled ==
    /\ proc_status = "terminating"
    /\ proc_status' = "exited"
    /\ proc_returncode' = << -15 >>
    /\ UNCHANGED <<spc, clock, timeout_time, proc_script, written, stdout_pipe, stderr_pipe,
                   stdout_lines, stderr_lines, sim_result>>
    /\ UNCHANGED othersOfSim

\* time passes
Tick ==
    /\ spc \notin {"idle", "returned"}
    /\ clock < MaxClock
    /\ clock' = clock + 1
    /\ UNCHANGED <<spc, timeout_time, proc_script, written, proc_status, proc_returncode,
                   stdout_pipe, stderr_pipe, stdout_lines, stderr_lines, sim_result>>
    /\ UNCHANGED othersOfSim

\* the statements of simulate_execution
SimulatorStep ==
    \/ StartProcess
    \/ CheckTimeout
    \/ Poll
    \/ ReadStdout
    \/ ReadStderr
    \/ Sleep
    \/ Communicate

NextSim ==
    \/ SimulatorStep
    \/ RunnerWrites
    \/ RunnerExits
    \/ RunnerKilled
    \/ Tick

SpecSim == InitSim /\ [][NextSim]_vars

\* simulate_execution keeps running, time passes, a terminated process dies,
\* and a process does what its script says; a script without an exit code is
\* a process that hangs
SpecSimFair ==
    /\ SpecSim
    /\ WF_vars(SimulatorStep)
    /\ WF_vars(Tick)
    /\ WF_vars(RunnerKilled)
    /\ WF_vars(RunnerWrites)
    /\ WF_vars(RunnerExits)

\* the errors of the report with the given type
ErrorsOfType(report, error_type) ==
    {k \in 1..Len(report.errors) : report.errors[k].type = error_type}

\* the process was started and simulate_execution has returned its report
ReportReturned == spc = "returned" /\ proc_status = "exited"

\* C18 (as stated): every ErrorRecord of the report has the severity that
\* _determine_severity gives to its type (unknown: medium). Violated by the
\* record of _interpret_exit_code (unknown, high) and by the record of the
\* except branch (unknown, critical).
C18_SeverityFromMap ==
    spc # "idle" =>
        \A k \in 1..Len(sim_result.errors) :
            sim_result.errors[k].severity = _determine_severity(sim_result.errors[k].type)

\* the records that come from _parse_error_output and from the timeout check
\* do follow the map
C18_ParsedSeverityFromMap ==
    spc # "idle" =>
        \A k \in 1..Len(sim_result.errors) :
            sim_result.errors[k].type # "unknown" =>
                sim_result.errors[k].severity
                    = _determine_severity(sim_result.errors[k].type)

\* a report with the exit code record
C18_ExitCodeRecord ==
    /\ ReportReturned
    /\ proc_returncode = <<1>>
    /\ \E k \in 1..Len(sim_result.errors) :
          sim_result.errors[k].type = "unknown" /\ sim_result.errors[k].severity = "high"

\* the lines the process has written that match a pattern of the table
MatchingWritten ==
    {k \in 1..written : ParsedLine[proc_script.events[k].text] # <<>>}

\* C19 (as stated): in the report returned, every line the process wrote,
\* to stdout or to stderr, read in the loop or after the exit, that matches
\* a pattern has exactly one ErrorRecord, that of its first matching pattern
\* (a line written twice has two). Violated: stdout lines go to
\* _parse_runtime_output only, and what communicate() collects is not parsed.
C19_EveryMatchingLineReported ==
    ReportReturned =>
        \A k \in MatchingWritten :
            Cardinality({e \in 1..Len(sim_result.errors) :
                            sim_result.errors[e]
                                = ParsedLine[proc_script.events[k].text][1]})
                = Cardinality({m \in 1..written :
                                  proc_script.events[m].text = proc_script.events[k].text})

\* a matching line of stderr that the loop read is in the report
C19_StderrLineReported ==
    /\ ReportReturned
    /\ MatchingWritten # {}
    /\ \A k \in MatchingWritten : proc_script.events[k].stream = "stderr"
    /\ Len(sim_result.errors) = Cardinality(MatchingWritten)
    /\ proc_returncode = <<0>>

\* simulate_execution has returned a report with exactly one timeout error,
\* of severity critical
TimeoutReported ==
    /\ spc = "returned"
    /\ Cardinality(ErrorsOfType(sim_result, "timeout")) = 1
    /\ \A k \in ErrorsOfType(sim_result, "timeout") :
          sim_result.errors[k].severity = "critical"

\* C20 (as stated): when the timeout has elapsed and the process has not
\* finished, simulate_execution eventually returns a report with exactly one
\* timeout error of severity critical. Violated: readline() waits for a line
\* or the end of the stream, so the timeout check is not reached while the
\* process is silent.
C20_TimeoutAborts ==
    (proc_status = "running" /\ clock > timeout_time) ~> TimeoutReported

\* C20 for a process that writes nothing and never exits by itself
C20_SilentProcessAborted ==
    (/\ proc_status = "running"
     /\ clock > timeout_time
     /\ proc_script.events = <<>>
     /\ proc_script.exit = <<>>) ~> TimeoutReported

\* the timeout check does abort a process that keeps the loop going
C20_TimeoutAbortSeen ==
    /\ TimeoutReported
    /\ proc_returncode = << -15 >>
    /\ Len(sim_result.errors) = 1
    /\ sim_result.execution.completed

----------------------------------------------------------------------------
(* ErrorAnalyzer.analyze_errors called on a report: the report is an       *)
(* argument, the list of corrections is returned and a record of the call  *)
(* is appended to self.correction_history.                                 *)

\* the most error records of a report
MaxErrors == 3

\* commands of the reports
AnalyzerCommands ==
    {"nmap -p 80-70 example.com",
     "nmap -p 70-80 example.com",
     "nmap -sS -O -p 443-22 scanme.nmap.org",
     "nmap -p 22,80 -T5 example.com",
     "nmap -p  80-70 example.com",
     "nmap -sS -p 080-70 example.com"}

InitAnalyzer ==
    /\ agentIdle
    /\ corrIdle
    /\ apiIdle
    /\ serverIdle
    /\ OrchIdle
    /\ riskIdle
    /\ valIdle
    /\ simIdle
    /\ an_pc = "start"
    /\ an_report \in [command : AnalyzerCommands,
                      errors : SeqsUpTo(AnalyzerErrors, MaxErrors)]
    /\ an_corrections = <<>>
    /\ correction_history = <<>>

\* ErrorAnalyzer.analyze_errors, lines 171-216
AnalyzeErrors ==
    /\ an_pc = "start"
    /\ \E corrections \in {analyze_errors(an_report)} :
          /\ an_corrections' = corrections
          /\ correction_history' =
                Append(correction_history,
                       [command |-> an_report.command, errors |-> an_report.errors,
                        corrections |-> corrections])
    /\ an_pc' = "returned"
    /\ UNCHANGED an_report
    /\ UNCHANGED othersOfAnalyzer

NextAnalyzer == AnalyzeErrors

SpecAnalyzer == InitAnalyzer /\ [][NextAnalyzer]_vars

\* the rules of the table that apply to an error record: same type, and the
\* pattern found in the message without regard to case
RulesFor ==
    [error \in AnalyzerErrors |->
        {k \in 1..Len(error_mappings) :
            /\ error_mappings[k].error_type = error.type
            /\ SearchIgnoreCase(error_mappings[k].error_pattern, error.message)}]

\* the error records of the report, by index, that have a rule
MatchedErrors == {i \in 1..Len(an_report.errors) : RulesFor[an_report.errors[i]] # {}}

\* src gives, for each correction returned, the index of its error record:
\* every record with a rule has one correction, each correction is that of
\* the first rule of its record, confidence never rises along the list, and
\* corrections of equal confidence are in the order of their records
RankedBy(src) ==
    /\ \A i \in MatchedErrors : \E j \in DOMAIN src : src[j] = i
    /\ \A j \in DOMAIN src :
          /\ an_corrections[j].error = an_report.errors[src[j]]
          /\ an_corrections[j].confidence
                = error_mappings[First(RulesFor[an_report.errors[src[j]]])].confidence
          /\ an_corrections[j].correction
                = _generate_correction(
                      an_report.command,
                      error_mappings[First(RulesFor[an_report.errors[src[j]]])])
    /\ \A j \in DOMAIN src : \A m \in DOMAIN src :
          j < m => \/ an_corrections[j].confidence > an_corrections[m].confidence
                   \/ /\ an_corrections[j].confidence = an_corrections[m].confidence
                      /\ src[j] < src[m]

\* C21: analyze_errors returns one correction for each error record that has
\* a rule and none for the others, each that of the first rule in table order
\* whose type is the record's and whose pattern matches its message without
\* regard to case; the list is in descending order of confidence, equal
\* confidences in the order of the records; it is empty for a report without
\* errors.
C21_RankedCorrections ==
    an_pc = "returned" =>
        /\ Len(an_corrections) = Cardinality(MatchedErrors)
        /\ \E src \in [1..Len(an_corrections) -> MatchedErrors] : RankedBy(src)
        /\ an_report.errors = <<>> => an_corrections = <<>>

\* a report of three records: the timeout record before the port record,
\* both of confidence 85, and a record both permission rules match last,
\* which comes first in the list returned with the confidence of rule 1
C21_Witness ==
    /\ an_pc = "returned"
    /\ Len(an_report.errors) = 3
    /\ an_report.errors[1].type = "timeout"
    /\ an_report.errors[2].type = "port_specification"
    /\ Cardinality(RulesFor[an_report.errors[3]]) = 2
    /\ Len(an_corrections) = 3
    /\ an_corrections[1].confidence = 95
    /\ an_corrections[2].error.type = "timeout"
    /\ an_corrections[3].error.type = "port_specification"

\* a report without errors has been analysed
C21_NoErrors ==
    an_pc = "returned" /\ an_report.errors = <<>> /\ an_corrections = <<>>

\* the port option '-p a-b' of a command: a and b for the first "-p " that is
\* followed by a word of two numbers with "-" between them (<<>>: none)
PortOption(cmd) ==
    LET word(i) == SubSeq(cmd, i + 3, SkipNonSpaces(cmd, i + 3) - 1)
        range(w) == /\ SkipDigits(w, 1) > 1
                    /\ Char(w, SkipDigits(w, 1)) = "-"
                    /\ SkipDigits(w, SkipDigits(w, 1) + 1) = Len(w) + 1
                    /\ SkipDigits(w, 1) < Len(w)
        hits == {i \in 1..Len(cmd) : StartsWithAt(cmd, "-p ", i) /\ range(word(i))}
        bounds(w) == << ParseInt(SubSeq(w, 1, SkipDigits(w, 1) - 1)),
                        ParseInt(SubSeq(w, SkipDigits(w, 1) + 1, Len(w))) >>
    IN  IF hits = {} THEN <<>> ELSE bounds(word(First(hits)))

\* PortOption for the commands of the reports (evaluated once)
PortOptionOf == [cmd \in AnalyzerCommands |-> PortOption(cmd)]

\* the corrections returned for a port_specification error
PortCorrections ==
    {j \in 1..Len(an_corrections) : an_corrections[j].error.type = "port_specification"}

\* C22: the correction for a port_specification error on a command with the
\* port option '-p a-b' has a command that contains '-p b-a' when a > b, and
\* the command itself, with no change listed, when a <= b.
C22_PortRangeFix ==
    an_pc = "returned" /\ PortOptionOf[an_report.command] # <<>> =>
        \A j \in PortCorrections :
            \E a \in {PortOptionOf[an_report.command][1]} :
            \E b \in {PortOptionOf[an_report.command][2]} :
                IF a > b
                THEN Contains(an_corrections[j].correction.corrected_command,
                              "-p " \o IntToStr(b) \o "-" \o IntToStr(a))
                ELSE /\ an_corrections[j].correction.corrected_command = an_report.command
                     /\ an_corrections[j].correction.changes = <<>>

\* the example of the specification
C22_Witness ==
    /\ an_pc = "returned"
    /\ an_report.command = "nmap -p 80-70 example.com"
    /\ PortCorrections # {}
    /\ \A j \in PortCorrections :
          an_corrections[j].correction.corrected_command = "nmap -p 70-80 example.com"

\* a range in ascending order has been left as it was
C22_AscendingKept ==
    /\ an_pc = "returned"
    /\ an_report.command = "nmap -p 70-80 example.com"
    /\ PortCorrections # {}
    /\ \A j \in PortCorrections :
          an_corrections[j].correction.corrected_command = an_report.command

\* with two blanks after -p the change is listed and the command is returned
\* as it was: '-p 80-70' is not in the command that str.replace is given
C22_TwoBlanksKept ==
    /\ an_pc = "returned"
    /\ an_report.command = "nmap -p  80-70 example.com"
    /\ PortCorrections # {}
    /\ \A j \in PortCorrections :
          /\ an_corrections[j].correction.corrected_command = an_report.command
          /\ an_corrections[j].correction.changes # <<>>

----------------------------------------------------------------------------
(* The validation service: api/routes.py served by one uvicorn process.    *)
(* Every endpoint is an `async def` that runs on the event loop, and a     *)
(* handler keeps the loop until it awaits or returns. repair_command calls *)
(* the module-level self_correction_agent without awaiting, so its         *)
(* statements run while loop_task is the request. The body of              *)
(* correct_command up to the statement that stores the session is taken    *)
(* from the agent's model as the path it ends on.                          *)

\* repair requests in flight at the same time
NumRequests == 2
Requests == 1..NumRequests

\* how correct_command reaches the statement that stores the session: the
\* flags of the session and the reasons of the feedback records it holds
CorrectionPaths ==
    {[success |-> TRUE, is_autonomous_repair |-> TRUE, feedback |-> <<>>],
     [success |-> TRUE, is_autonomous_repair |-> FALSE, feedback |-> <<>>],
     [success |-> TRUE, is_autonomous_repair |-> FALSE,
      feedback |-> <<"max_attempts_approaching">>],
     [success |-> FALSE, is_autonomous_repair |-> FALSE,
      feedback |-> <<"no_corrections_available">>],
     [success |-> FALSE, is_autonomous_repair |-> FALSE,
      feedback |-> <<"max_attempts_approaching">>]}

\* seconds of wall-clock time that pass while the service is watched
MaxSeconds == 1

\* f"session_{int(time.time())}"
SessionId(t) == "session_" \o IntToStr(t)

\* the ids a client asks get_repair_session for
SessionIds == {SessionId(t) : t \in 0..MaxSeconds}

\* what a reader of the history gets: the sessions in list order, each as
\* the object is at that moment
Snapshot == [k \in 1..Len(shared_sessions) |-> session_obj[shared_sessions[k]]]

InitServer ==
    /\ agentIdle
    /\ corrIdle
    /\ apiIdle
    /\ OrchIdle
    /\ riskIdle
    /\ valIdle
    /\ simIdle
    /\ analyzerIdle
    /\ loop_task = 0
    /\ req_pc = [r \in Requests |-> "pending"]
    /\ req_path \in [Requests -> CorrectionPaths]
    /\ session_obj = [r \in Requests |-> <<>>]
    /\ shared_sessions = <<>>
    /\ last_read = <<>>
    /\ now = 0
    /\ session_report = <<>>

\* the event loop starts the handler of a request: routes.py, lines 255-293
Dispatch(r) ==
    /\ loop_task = 0
    /\ req_pc[r] = "pending"
    /\ loop_task' = r
    /\ req_pc' = [req_pc EXCEPT ![r] = "correct_command"]
    /\ UNCHANGED <<req_path, session_obj, shared_sessions, last_read, now, session_report>>
    /\ UNCHANGED othersOfServer

\* correct_command, lines 223-275 and 281-364: the session object is made,
\* with the second of its creation as its id, and filled
RunCorrection(r) ==
    /\ loop_task = r
    /\ req_pc[r] = "correct_command"
    /\ session_obj' = [session_obj EXCEPT ![r] =
                          [session_id |-> SessionId(now),
                           success |-> req_path[r].success,
                           is_autonomous_repair |-> req_path[r].is_autonomous_repair,
                           feedback_generated |-> req_path[r].feedback]]
    /\ req_pc' = [req_pc EXCEPT ![r] = "append"]
    /\ UNCHANGED <<loop_task, req_path, shared_sessions, last_read, now, session_report>>
    /\ UNCHANGED othersOfServer

\* an append that puts the new session in the place of the last one
AppendedTo_Overwriting(list, ref) ==
    IF list = <<>> THEN <<ref>> ELSE [list EXCEPT ![Len(list)] = ref]

\* list.append on self.sessions
AppendedTo(list, ref) == Append(list, ref)

\* self.sessions.append(session): line 278 (then return) and line 368
AppendSession(r) ==
    /\ loop_task = r
    /\ req_pc[r] = "append"
    /\ shared_sessions' = AppendedTo(shared_sessions, r)
    /\ req_pc' = [req_pc EXCEPT ![r] =
                     IF session_obj[r].success THEN "respond" ELSE "final_feedback"]
    /\ UNCHANGED <<loop_task, req_path, session_obj, last_read, now, session_report>>
    /\ UNCHANGED othersOfServer

\* lines 371-373: the final feedback is appended to the session
FinalFeedback(r) ==
    /\ loop_task = r
    /\ req_pc[r] = "final_feedback"
    /\ session_obj' = [session_obj EXCEPT ![r].feedback_generated = Append(@, "final")]
    /\ req_pc' = [req_pc EXCEPT ![r] = "respond"]
    /\ UNCHANGED <<loop_task, req_path, shared_sessions, last_read, now, session_report>>
    /\ UNCHANGED othersOfServer

\* routes.py, lines 296-368: the response is built and returned, and the
\* event loop is free again
Respond(r) ==
    /\ loop_task = r
    /\ req_pc[r] = "respond"
    /\ req_pc' = [req_pc EXCEPT ![r] = "returned"]
    /\ loop_task' = 0
    /\ UNCHANGED <<req_path, session_obj, shared_sessions, last_read, now, session_report>>
    /\ UNCHANGED othersOfServer

\* get_repair_session and get_recent_sessions (routes.py, lines 450-459 and
\* 535-557): handlers without an await that read the history
ReadSessions ==
    /\ loop_task = 0
    /\ last_read' = Snapshot
    /\ UNCHANGED <<loop_task, req_pc, req_path, session_obj, shared_sessions, now, session_report>>
    /\ UNCHANGED othersOfServer

\* SelfCorrectionAgent.generate_report: the summary of a session
generate_report(s) ==
    [session_summary |->
        [session_id |-> s.session_id, success |-> s.success,
         is_autonomous_repair |-> s.is_autonomous_repair,
         source_agent |-> IF s.is_autonomous_repair THEN "SELF-CORR-AUTO"
                          ELSE "SELF-CORR-ITER"],
     feedback_generated |-> s.feedback_generated]

\* the positions of the history whose session has the id
SessionsWithId(id) == {k \in 1..Len(Snapshot) : Snapshot[k].session_id = id}

\* get_repair_session (routes.py, lines 450-464): the report of the first
\* session of the history with the id, 404 when the loop ends without one
GetRepairSession(id) ==
    /\ loop_task = 0
    /\ session_report' =
          IF SessionsWithId(id) # {}
          THEN [status_code |-> 200,
                report |-> generate_report(Snapshot[First(SessionsWithId(id))])]
          ELSE [status_code |-> 404, detail |-> "Session " \o id \o " not found"]
    /\ UNCHANGED <<loop_task, req_pc, req_path, session_obj, shared_sessions, last_read, now>>
    /\ UNCHANGED othersOfServer

\* a second of wall-clock time passes
Tick_Second ==
    /\ now < MaxSeconds
    /\ now' = now + 1
    /\ UNCHANGED <<loop_task, req_pc, req_path, session_obj, shared_sessions, last_read,
                   session_report>>
    /\ UNCHANGED othersOfServer

NextServer ==
    \/ \E r \in Requests : Dispatch(r)
    \/ \E r \in Requests : RunCorrection(r)
    \/ \E r \in Requests : AppendSession(r)
    \/ \E r \in Requests : FinalFeedback(r)
    \/ \E r \in Requests : Respond(r)
    \/ ReadSessions
    \/ \E id \in SessionIds : GetRepairSession(id)
    \/ Tick_Second

SpecServer == InitServer /\ [][NextServer]_vars

\* the stored references to the session of a request
StoredAt(r) == {k \in 1..Len(shared_sessions) : shared_sessions[k] = r}

\* the requests whose handler is between its start and its return
InHandler == {r \in Requests : req_pc[r] \notin {"pending", "returned"}}

\* C23: the handlers of repair requests that are in flight together run one
\* at a time; every call of correct_command that has returned has exactly
\* one session in the history and no call has more; a step leaves the history
\* as it is or adds one session at its end, so nothing stored is lost,
\* overwritten, removed or moved.
C23_AppendsSerialized ==
    /\ [](/\ Cardinality(InHandler) <= 1
          /\ \A r \in Requests :
                /\ req_pc[r] \in {"final_feedback", "respond", "returned"}
                      => Cardinality(StoredAt(r)) = 1
                /\ req_pc[r] \in {"pending", "correct_command", "append"}
                      => StoredAt(r) = {})
    /\ [][\/ shared_sessions' = shared_sessions
          \/ \E r \in Requests : shared_sessions' = Append(shared_sessions, r)]_vars

\* both requests have returned, the second was handled first, and the
\* history holds their sessions in the order of handling
C23_Witness ==
    /\ NumRequests >= 2
    /\ \A r \in Requests : req_pc[r] = "returned"
    /\ Len(shared_sessions) = NumRequests
    /\ shared_sessions[1] = 2
    /\ shared_sessions[2] = 1

\* C24 (as stated): no step changes a session object that the history
\* holds. Violated by the final feedback, which correct_command appends to
\* the session (line 373) after it has stored the session (line 368).
C24_StoredSessionsFrozen ==
    [][\A k \in 1..Len(shared_sessions) :
          session_obj'[shared_sessions[k]] = session_obj[shared_sessions[k]]]_vars

\* a session is final when it succeeded or holds its final feedback
FinalState(s) ==
    s.success \/ (s.feedback_generated # <<>>
                  /\ s.feedback_generated[Len(s.feedback_generated)] = "final")

\* what the handlers that read the history do see is final: they run when no
\* repair handler holds the event loop
C24_ReadersSeeFinal ==
    \A k \in 1..Len(last_read) : FinalState(last_read[k])

\* a failed session stored without its final feedback
C24_StoredBeforeFinal ==
    \E k \in 1..Len(shared_sessions) : ~FinalState(session_obj[shared_sessions[k]])

\* a reader has seen a failed session
C24_FailedSessionRead ==
    \E k \in 1..Len(last_read) : ~last_read[k].success

----------------------------------------------------------------------------
(* One validation call of the orchestrator: ValidatorClient.validate posts *)
(* the candidate to /api/v1/validate; the service runs validate_single     *)
(* (validate_nmap_command with the default configuration: security rules   *)
(* on, no execution), converts the dict with convert_to_validation_result  *)
(* and answers; the client builds the orchestrator's ValidationResult.     *)

\* schemas.py: class ValidationStatus
ValidationStatus == {"valid", "repairable", "invalid"}

\* commands of the candidates: those of the validator's model, and one that
\* is allowed with four warning flags
ServiceTexts ==
    ValidatorTexts \cup {"nmap -A -sS -O -T4 scanme.nmap.org"}

\* dict.get(key, default)
Get(dict, key, default) == IF key \in DOMAIN dict THEN dict[key] ELSE default

\* bool(dict.get(key)) of an entry that is absent or a boolean
Truthy(dict, key) ==
    /\ key \in DOMAIN dict
    /\ dict[key]

\* convert_to_validation_result, lines 82-99: the issues of a blocked command
RECURSIVE SecurityIssues(_, _)
SecurityIssues(texts, severity) ==
    IF texts = <<>> THEN <<>>
    ELSE << IF Contains(Head(texts), "Forbidden flag")
            THEN [type |-> "forbidden_flag", severity |-> "critical",
                  message |-> Head(texts)]
            ELSE IF Contains(Head(texts), "Unsafe target")
            THEN [type |-> "unsafe_target", severity |-> "high", message |-> Head(texts)]
            ELSE [type |-> "validation_error", severity |-> severity,
                  message |-> Head(texts)] >>
         \o SecurityIssues(Tail(texts), severity)

\* a conversion that passes on "valid" for every valid command
status_of_Plain(internal_result) ==
    IF Truthy(internal_result, "valid") THEN "valid" ELSE "invalid"

\* convert_to_validation_result, lines 110-112
status_of(internal_result) ==
    IF Truthy(internal_result, "valid")
       /\ Get(internal_result, "risk_level", "") \in {"high", "critical"}
    THEN "warning"
    ELSE IF Truthy(internal_result, "valid") THEN "valid" ELSE "invalid"

\* convert_to_validation_result
convert_to_validation_result(internal_result) ==
    [status |-> status_of(internal_result),
     command |-> Get(internal_result, "command", ""),
     valid |-> Get(internal_result, "valid", FALSE),
     risk_score |-> IF "security" \in DOMAIN internal_result
                    THEN internal_result.security.risk_score
                    ELSE Get(internal_result, "risk_score", 0),
     risk_level |-> IF "security" \in DOMAIN internal_result
                    THEN internal_result.security.risk_level
                    ELSE IF "risk_score" \in DOMAIN internal_result
                    THEN Get(internal_result, "risk_level", "unknown")
                    ELSE "unknown",
     issues |->
        (IF Truthy(internal_result, "blocked_by_security")
            /\ "security_issues" \in DOMAIN internal_result
         THEN SecurityIssues(internal_result.security_issues,
                             Get(internal_result, "severity", "medium"))
         ELSE <<>>)
        \o (IF ~Truthy(internal_result, "valid")
               /\ ~Truthy(internal_result, "blocked_by_security")
            THEN << [type |-> "syntax_error",
                     severity |-> Get(internal_result, "severity", "high"),
                     message |-> Get(internal_result, "error",
                                     "Unknown validation error")] >>
            ELSE <<>>),
     warnings |-> Get(internal_result, "warnings", <<>>)]

\* the messages of the issues of a reply
IssueMessages(issues) == [k \in 1..Len(issues) |-> issues[k].message]

\* the except branch of ValidatorClient.validate, lines 55-61
ClientFallback ==
    [status |-> "invalid", score |-> 0, issues |-> <<"Validator indisponible ou erreur">>]

\* ValidatorClient.validate, lines 39-52, on the JSON of a reply; the score in
\* hundredths. ValidationResult(status=...) raises for a text that is not a
\* ValidationStatus, which the except branch catches.
ClientParse(reply) ==
    IF reply.status \notin ValidationStatus THEN ClientFallback
    ELSE [status |-> reply.status,
          score |-> IF reply.risk_score # 0 THEN 100 - 100 * reply.risk_score ELSE 85,
          issues |-> IssueMessages(reply.issues) \o reply.warnings]

InitApi ==
    /\ agentIdle
    /\ corrIdle
    /\ serverIdle
    /\ analyzerIdle
    /\ OrchIdle
    /\ riskIdle
    /\ simIdle
    /\ vpc = "start"
    /\ vcmd \in ServiceTexts
    /\ execute_real = FALSE
    /\ apply_security_rules = TRUE
    /\ vparts = <<>>
    /\ vflags = <<>>
    /\ vtargets = <<>>
    /\ vresponse = [command |-> vcmd, valid |-> FALSE, severity |-> "high"]
    /\ vlog = <<>>
    /\ api_pc = "posted"
    /\ api_reply = <<>>
    /\ client_result = <<>>

\* routes.py, validate_command: the dict of validate_single is converted and
\* returned as the JSON of the reply
Reply ==
    /\ api_pc = "posted"
    /\ vpc = "returned"
    /\ api_reply' = convert_to_validation_result(vresponse)
    /\ api_pc' = "replied"
    /\ UNCHANGED client_result
    /\ UNCHANGED othersOfApi

\* ValidatorClient.validate, lines 36-61: the reply arrives and is read, or
\* the request fails (timeout of 30 s, connection error, error status)
Receive ==
    /\ api_pc = "replied"
    /\ \/ /\ client_result' = ClientParse(api_reply)
          /\ api_pc' = "received"
       \/ /\ client_result' = ClientFallback
          /\ api_pc' = "failed"
    /\ UNCHANGED api_reply
    /\ UNCHANGED othersOfApi

NextApi ==
    \/ NextValidator
    \/ Reply
    \/ Receive

SpecApi == InitApi /\ [][NextApi]_vars

\* C25 (as stated): when the reply of the service has reached the client,
\* the status the service computed is one of valid, repairable, invalid, the
\* ValidationResult given to the orchestrator has that status, and a command
\* the validator found valid does not come out as invalid. Violated: for a
\* valid command of risk level high or critical the service answers
\* "warning", which is no ValidationStatus, and the client falls back to
\* invalid.
C25_StatusPreserved ==
    api_pc = "received" =>
        /\ api_reply.status \in ValidationStatus
        /\ client_result.status = api_reply.status
        /\ vresponse.valid => client_result.status # "invalid"

\* the statuses that do pass: what the client returns is a ValidationStatus,
\* and it is the status of the reply when that is one
C25_ClientStatus ==
    api_pc \in {"received", "failed"} =>
        /\ client_result.status \in ValidationStatus
        /\ api_pc = "received" /\ api_reply.status \in ValidationStatus
              => client_result.status = api_reply.status

\* a valid command of risk level high has come out as invalid
C25_ValidTurnedInvalid ==
    /\ api_pc = "received"
    /\ vresponse.valid
    /\ vresponse.risk_level = "high"
    /\ api_reply.status = "warning"
    /\ client_result.status = "invalid"

\* the service never answers "repairable"
C25_NeverRepairable ==
    api_pc \in {"replied", "received", "failed"} => api_reply.status # "repairable"

----------------------------------------------------------------------------
(* The event log of Orchestrator.handle                                    *)

\* the entries handle has written for the request at hand: those from its
\* comprehension entry (line 57, the first statement that logs) onwards
RequestEvents ==
    IF opc \in {"idle", "start"} THEN <<>>
    ELSE \* the last comprehension entry of the file
         LET starts == {i \in 1..Len(mcp_log) : mcp_log[i].stage = "comprehension"}
             first == CHOOSE i \in starts : \A j \in starts : j <= i
         IN  SubSeq(mcp_log, first, Len(mcp_log))

\* the positions of the entries of a stage in a sequence of entries
EventsAt(ev, stage) == {k \in 1..Len(ev) : ev[k].stage = stage}

\* C26: when handle has returned a FinalDecision, the entries of the request
\* hold a generation_success entry, after it a validation_attempt entry with
\* status valid, and after that exactly one pipeline_success entry, which is
\* the request's last entry; no request has both a pipeline_success and a
\* pipeline_failure entry; and every step leaves the file as it is or
\* extends it at the end.
C26_EventLog ==
    /\ [](\A ev \in {RequestEvents} :
            /\ decision # <<>> =>
                  /\ EventsAt(ev, "pipeline_success") = {Len(ev)}
                  /\ \E j \in EventsAt(ev, "validation_attempt") :
                        /\ j < Len(ev)
                        /\ ev[j].status = "valid"
                        /\ \E i \in 1..(j - 1) : ev[i].stage = "generation_success"
            /\ EventsAt(ev, "pipeline_success") = {}
               \/ EventsAt(ev, "pipeline_failure") = {})
    /\ [][/\ Len(mcp_log') >= Len(mcp_log)
          /\ SubSeq(mcp_log', 1, Len(mcp_log)) = mcp_log]_vars

\* a FinalDecision after a Generator failed, a candidate was repaired and a
\* candidate was found invalid, logged behind the lines of an earlier
\* request that failed
C26_Witness ==
    /\ opc = "returned"
    /\ decision # <<>>
    /\ Len(mcp_log) > Len(RequestEvents)
    /\ mcp_log[2].stage = "pipeline_failure"
    /\ EventsAt(RequestEvents, "generation_failure") # {}
    /\ EventsAt(RequestEvents, "self_correction_success") # {}
    /\ EventsAt(RequestEvents, "validation_failure") # {}
    /\ Cardinality(EventsAt(RequestEvents, "generation_success")) = 2

\* a request that failed has one pipeline_failure entry, its last
C26_FailureLogged ==
    /\ opc = "http_500"
    /\ EventsAt(RequestEvents, "pipeline_failure") = {Len(RequestEvents)}
    /\ EventsAt(RequestEvents, "pipeline_success") = {}

----------------------------------------------------------------------------
(* The autonomous phase when the table has nothing to change               *)

\* the pattern of a fix occurs in a command (re.search finds a match)
PatternOccurs(cmd, fix) ==
    CASE fix.kind = "port_range" -> PortRangeHits(cmd) # {}
      [] fix.kind = "script" -> \E i \in 1..Len(cmd) : ScriptAt(cmd, i)
      [] fix.kind = "sub" -> \E k \in 1..Len(fix.pattern) : Contains(cmd, fix.pattern[k])

\* for each command and each error kind of the table: no pattern of the
\* entry's fixes occurs in the command (evaluated once)
NoFixPattern ==
    [c \in Commands |->
        [t \in AUTONOMOUS_FIXES_KEYS |->
            \A k \in 1..Len(AUTONOMOUS_FIXES(t).fixes) :
                ~PatternOccurs(c, AUTONOMOUS_FIXES(t).fixes[k])]]

\* the initial simulation of a Repairable command has reported errors
InitialErrors ==
    /\ validation_status = "Repairable"
    /\ sim_calls # <<>>
    /\ sim_calls[1].phase = "auto_exec"
    /\ sim_calls[1].report.errors # <<>>

\* the autonomous phase has reported no repair: no result, no test run, and
\* no attempt but those of the iterations
NoAutonomousRepair ==
    /\ repair_result = <<>>
    /\ \A k \in 1..Len(sim_calls) : sim_calls[k].phase # "auto_test"
    /\ Len(session.attempts)
          <= Cardinality({k \in 1..Len(sim_calls) : sim_calls[k].phase = "iter_exec"})

\* C27 (as stated): when the first error of the initial simulation has an
\* entry in the table of known fixes and no pattern of the entry's fixes
\* occurs in the command, the autonomous repair gives no result, no test
\* run is made and no autonomous attempt is recorded. Violated: a fix
\* without a check adds its reason to changes_applied whether or not its
\* pattern occurs, so the result is the unchanged command.
C27_UnchangedMeansUnavailable ==
    (/\ InitialErrors
     /\ sim_calls[1].report.errors[1].type \in AUTONOMOUS_FIXES_KEYS
     /\ NoFixPattern[command][sim_calls[1].report.errors[1].type])
    => NoAutonomousRepair

\* what holds: an error kind without an entry in the table gives no repair
C27_UnknownKindUnavailable ==
    (/\ InitialErrors
     /\ sim_calls[1].report.errors[1].type \notin AUTONOMOUS_FIXES_KEYS)
    => NoAutonomousRepair

\* the unchanged command has been tested as a repair and recorded as the
\* autonomous attempt of a session that succeeded
C27_UnchangedRepairRecorded ==
    /\ Returned
    /\ InitialErrors
    /\ repair_result # <<>>
    /\ repair_result[1].repaired_command = command
    /\ repair_result[1].changes # <<>>
    /\ Len(sim_calls) = 2
    /\ sim_calls[2].phase = "auto_test"
    /\ sim_calls[2].report.command = command
    /\ session.is_autonomous_repair
    /\ session.final_command = <<command>>

\* the initial simulation of a Repairable command has reported no error
InitialClean ==
    /\ validation_status = "Repairable"
    /\ sim_calls # <<>>
    /\ sim_calls[1].phase = "auto_exec"
    /\ sim_calls[1].report.errors = <<>>

\* C28 (as stated): a Repairable session whose initial simulation reported
\* zero errors returns succeeded, and that simulation is its only one.
\* Violated: with an empty error list correct_command goes on to the
\* iterative loop, which runs the command again and decides on that run.
C28_ZeroErrorsImmediateSuccess ==
    (Returned /\ InitialClean) => (session.success /\ Len(sim_calls) = 1)

\* a session that failed after an initial simulation without errors
C28_CleanThenFailed ==
    /\ Returned
    /\ InitialClean
    /\ ~session.success
    /\ Len(sim_calls) >= 2
    /\ sim_calls[2].phase = "iter_exec"
    /\ sim_calls[2].report.command = command

\* what holds: after an initial simulation without errors the first
\* iteration runs the unchanged command, and the session succeeds exactly
\* when a later run meets the success criterion
C28_CleanGoesToLoop ==
    (InitialClean /\ Len(sim_calls) >= 2) =>
        /\ sim_calls[2].phase = "iter_exec"
        /\ sim_calls[2].report.command = command
        /\ repair_result = <<>>

\* the error kinds of a list of error records
KindsOf(errors) == {errors[k].type : k \in 1..Len(errors)}

\* the error kinds that occur in the errors_before of every one of the
\* attempts
KindsInEvery(attempts) ==
    {t \in KindsOf(AllErrorsBefore(attempts)) :
        \A k \in 1..Len(attempts) : t \in KindsOf(attempts[k].errors_before)}

\* the upstream feedback records of the session (those that carry
\* persistent_errors), by position
UpstreamFeedback ==
    {k \in 1..Len(session.feedback_generated) :
        "persistent_errors" \in DOMAIN session.feedback_generated[k]}

\* C29 (as stated): the persistent_errors of every upstream feedback record
\* are exactly the kinds that occur in the errors_before of every attempt
\* recorded when the feedback was generated. Violated: the code counts the
\* records of a kind over all attempts and compares the total with the
\* number of attempts.
C29_PersistentInEveryAttempt ==
    \A k \in UpstreamFeedback :
        \A f \in {session.feedback_generated[k]} :
            KindsOf([i \in 1..Len(f.persistent_errors) |-> [type |-> f.persistent_errors[i]]])
                = KindsInEvery(SubSeq(session.attempts, 1, f.attempts_made))

\* what holds: a kind that occurs in every attempt is reported
C29_EveryAttemptKindReported ==
    \A k \in UpstreamFeedback :
        \A f \in {session.feedback_generated[k]} :
            \A t \in KindsInEvery(SubSeq(session.attempts, 1, f.attempts_made)) :
                InSeq(t, f.persistent_errors)

\* a feedback over two attempts reports permission_denied, which the second
\* attempt does not have
C29_MissingKindReported ==
    /\ Returned
    /\ \E k \in UpstreamFeedback :
          /\ session.feedback_generated[k].attempts_made = 2
          /\ InSeq("permission_denied", session.feedback_generated[k].persistent_errors)
          /\ "permission_denied" \notin KindsOf(session.attempts[2].errors_before)

\* the interim feedback records of the session, by position
InterimFeedback ==
    {k \in 1..Len(session.feedback_generated) :
        /\ "reason" \in DOMAIN session.feedback_generated[k]
        /\ session.feedback_generated[k].reason = "max_attempts_approaching"}

\* the feedback records of the session that ask upstream for a retry
RetryFeedback ==
    {k \in 1..Len(session.feedback_generated) :
        session.feedback_generated[k].requires_m3_retry}

\* the interim record is there exactly when iteration max_attempts - 1 has
\* ended with a correction and without success (the loop is then in its
\* last iteration or past it), it is one record, and it was generated with
\* the attempt of that iteration as the last one recorded
C30_InterimOnce ==
    /\ Cardinality(InterimFeedback) =
          IF max_attempts >= 2 /\ attempt_num = max_attempts THEN 1 ELSE 0
    /\ \A k \in InterimFeedback :
          /\ session.feedback_generated[k].attempts_made <= Len(session.attempts)
          /\ session.attempts[session.feedback_generated[k].attempts_made].attempt_number
                = max_attempts - 1
          /\ ~session.attempts[session.feedback_generated[k].attempts_made].success

\* C30 (as stated): exactly one interim record, emitted when iteration
\* max_attempts - 1 ends with a correction and without success and in no
\* other iteration; and a session that returns succeeded carries no feedback
\* record that asks for a retry. Violated in its last part: the interim
\* record stays in a session whose last iteration succeeds.
C30_InterimFeedback ==
    /\ C30_InterimOnce
    /\ (Returned /\ session.success) => RetryFeedback = {}

\* a session that succeeded in its last iteration and carries the interim
\* record
C30_SucceededWithInterim ==
    /\ Returned
    /\ session.success
    /\ attempt_num = max_attempts
    /\ Cardinality(InterimFeedback) = 1
    /\ RetryFeedback = InterimFeedback

----------------------------------------------------------------------------
(* The baseline of the iterations                                          *)

\* the simulator calls that are the runs of the baseline, one per iteration
IterCalls == SelectSeq(sim_calls, LAMBDA c : c.phase = "iter_exec")

\* 1 when the autonomous attempt was tested, 0 otherwise
AutonomousTested ==
    IF \E k \in 1..Len(sim_calls) : sim_calls[k].phase = "auto_test" THEN 1 ELSE 0

\* C31: an autonomous attempt whose test run does not meet the success
\* criterion is recorded as unsuccessful with the repaired command, and the
\* first iteration simulates that command; the first iteration simulates the
\* original command when there was no autonomous attempt; and every later
\* iteration simulates the corrected command of the attempt recorded by the
\* iteration before it.
C31_BaselineCarried ==
    \A calls_made \in {IterCalls} :
    \A a \in {AutonomousTested} :
        /\ (a = 1 /\ (calls_made # <<>> \/ pc = "iter_exec")) =>
              /\ session.attempts # <<>>
              /\ ~session.attempts[1].success
              /\ session.attempts[1].corrected_command = repair_result[1].repaired_command
              /\ ~MeetsCriterion(sim_calls[2].report)
              /\ pc = "iter_exec" /\ calls_made = <<>>
                    => current_command = repair_result[1].repaired_command
        /\ \A i \in 1..Len(calls_made) :
              /\ i + a - 1 <= Len(session.attempts)
              /\ calls_made[i].report.command =
                    IF i + a - 1 = 0 THEN command
                    ELSE session.attempts[i + a - 1].corrected_command

\* a returned session whose autonomous attempt changed the command and
\* failed its test, and whose second iteration ran the correction of the
\* first although that correction left as many errors as before
C31_Witness ==
    /\ Returned
    /\ AutonomousTested = 1
    /\ repair_result[1].repaired_command # command
    /\ Len(IterCalls) >= 2
    /\ IterCalls[1].report.command = repair_result[1].repaired_command
    /\ Len(session.attempts) >= 2
    /\ session.attempts[2].corrected_command # session.attempts[1].corrected_command
    /\ Len(session.attempts[2].errors_after) >= Len(session.attempts[2].errors_before)
    /\ IterCalls[2].report.command = session.attempts[2].corrected_command

(***************************************************************************)
(* ErrorAnalyzer._generate_correction, one correction at a time             *)
(***************************************************************************)

\* commands handed to the correction generator
CorrectionCommands == {
    "nmap -sS 10.0.0.5",
    "nmap -n -sS 10.0.0.5",
    "nmap -sV scanme.nmap.org",
    "nmap -sS scan-net.org",
    "nmap -T4 -sS 10.0.0.5",
    "nmap -O 10.0.0.5",
    "nmap 10.0.0.5 -O",
    "nmap -O -p 80 10.0.0.5",
    "nmap -sS -O --osscan-guess 10.0.0.5",
    "nmap -p- 10.0.0.5",
    "nmap -p 1-500 10.0.0.5",
    "nmap -p 20-120 10.0.0.5",
    "nmap -p 80-90 10.0.0.5",
    "nmap -p 1-50 -A -T5 10.0.0.5",
    "nmap --script vuln 10.0.0.5",
    "nmap --script ssh-brute 10.0.0.5",
    "nmap --script http-title 10.0.0.5",
    "nmap --script=exploit 10.0.0.5" }

\* the correction of every command under every mapping, and the correction
\* of that corrected command under the same mapping
CorrectionTable ==
    [c \in CorrectionCommands |->
        [m \in 1..Len(error_mappings) |-> _generate_correction(c, error_mappings[m])]]

RepeatTable ==
    [c \in CorrectionCommands |->
        [m \in 1..Len(error_mappings) |->
            _generate_correction(CorrectionTable[c][m].corrected_command,
                                 error_mappings[m])]]

InitCorrection ==
    /\ agentIdle
    /\ OrchIdle
    /\ riskIdle
    /\ valIdle
    /\ simIdle
    /\ analyzerIdle
    /\ serverIdle
    /\ apiIdle
    /\ gc_pc = "start"
    /\ gc_command \in CorrectionCommands
    /\ gc_mapping \in 1..Len(error_mappings)
    /\ gc_correction = <<>>
    /\ gc_repeat = <<>>

\* analyze_errors found mapping gc_mapping for an error of the run of
\* gc_command: correction = self._generate_correction(command, mapping)
GenerateCorrection ==
    /\ gc_pc = "start"
    /\ gc_correction' = CorrectionTable[gc_command][gc_mapping]
    /\ gc_pc' = "corrected"
    /\ UNCHANGED <<gc_command, gc_mapping, gc_repeat>>
    /\ UNCHANGED othersOfCorrection

\* the next iteration of correct_command: current_command is the corrected
\* command, its run fails with the same error and the same mapping is applied
RepeatCorrection ==
    /\ gc_pc = "corrected"
    /\ gc_repeat' = RepeatTable[gc_command][gc_mapping]
    /\ gc_pc' = "repeated"
    /\ UNCHANGED <<gc_command, gc_mapping, gc_correction>>
    /\ UNCHANGED othersOfCorrection

NextCorrection == GenerateCorrection \/ RepeatCorrection

SpecCorrection == InitCorrection /\ [][NextCorrection]_vars

\* command.split(): the words of a command
RECURSIVE TokensFrom(_, _)
TokensFrom(s, i) ==
    IF SkipSpaces(s, i) > Len(s) THEN <<>>
    ELSE <<SubSeq(s, SkipSpaces(s, i), SkipNonSpaces(s, SkipSpaces(s, i)) - 1)>>
         \o TokensFrom(s, SkipNonSpaces(s, SkipSpaces(s, i)))

Tokens(s) == TokensFrom(s, 1)

HasToken(s, tok) == \E k \in 1..Len(Tokens(s)) : Tokens(s)[k] = tok

\* a word -T<digit>...
IsTimingToken(tok) ==
    Len(tok) >= 3 /\ SubSeq(tok, 1, 2) = "-T" /\ IsDigit(Char(tok, 3))

\* the words of after are those of before with flag put once, right behind
\* the binary name, when no word of before is the flag; the same words
\* otherwise
InsertedAfterBinary(before, after, flag) ==
    IF HasToken(before, flag) THEN Tokens(after) = Tokens(before)
    ELSE Tokens(after) = <<Tokens(before)[1], flag>> \o Tail(Tokens(before))

CorrectionTypeOf(m) == error_mappings[m].correction_type

\* C32: a flag-insertion correction (add_flag with "-n", and the default
\* timing "-T3" of adjust_timing for a command without timing template) adds
\* the flag exactly once, right after the binary name, only when no token of
\* the command is the flag, and leaves every other token unchanged
C32_FlagInsertedOnce ==
    gc_pc # "start" =>
        /\ CorrectionTypeOf(gc_mapping) = "add_flag" =>
              InsertedAfterBinary(gc_command, gc_correction.corrected_command, "-n")
        /\ (/\ CorrectionTypeOf(gc_mapping) = "adjust_timing"
            /\ \A k \in 1..Len(Tokens(gc_command)) : ~IsTimingToken(Tokens(gc_command)[k]))
              => InsertedAfterBinary(gc_command, gc_correction.corrected_command, "-T3")

\* the insertion is right for a command in which neither the binary name
\* nor the text of the flag occurs a second time
C32_PlainInsertion ==
    (/\ gc_pc # "start"
     /\ CorrectionTypeOf(gc_mapping) = "add_flag"
     /\ ~Contains(SubSeq(gc_command, 5, Len(gc_command)), "nmap")
     /\ Contains(gc_command, "-n") = HasToken(gc_command, "-n"))
        => InsertedAfterBinary(gc_command, gc_correction.corrected_command, "-n")

\* a target that holds the binary name got the flag written into it
C32_TargetRewritten ==
    /\ gc_pc = "corrected"
    /\ gc_command = "nmap -sV scanme.nmap.org"
    /\ gc_correction.corrected_command = "nmap -n -sV scanme.nmap -n.org"

\* a flag that no token of the command is was not inserted
C32_FlagNotInserted ==
    /\ gc_pc = "corrected"
    /\ CorrectionTypeOf(gc_mapping) = "add_flag"
    /\ ~HasToken(gc_command, "-n")
    /\ gc_correction.corrected_command = gc_command

\* the words of a command that are none of the flags of a list
KeptTokens(s, flags) ==
    {Tokens(s)[k] : k \in {j \in 1..Len(Tokens(s)) :
                              \A f \in 1..Len(flags) : Tokens(s)[j] # flags[f]}}

\* C33: a flag-removal correction (remove_flag, with the flags -O and
\* --osscan-guess, neither declared to take an argument) removes only the
\* listed flags: the tokens of the corrected command are the tokens of the
\* command that are not listed flags, so every target and every other flag
\* is still present
C33_OnlyListedFlagsRemoved ==
    (gc_pc # "start" /\ CorrectionTypeOf(gc_mapping) = "remove_flag") =>
        /\ KeptTokens(gc_correction.corrected_command, <<>>) = KeptTokens(gc_command, remove)
        /\ Len(Tokens(gc_correction.corrected_command))
              = Cardinality({j \in 1..Len(Tokens(gc_command)) :
                                \A f \in 1..Len(remove) : Tokens(gc_command)[j] # remove[f]})

\* a listed flag never stays in the corrected command
C33_ListedFlagsGone ==
    (gc_pc # "start" /\ CorrectionTypeOf(gc_mapping) = "remove_flag") =>
        \A f \in 1..Len(remove) : ~HasToken(gc_correction.corrected_command, remove[f])

\* the target went with the flag before it
C33_TargetRemoved ==
    /\ gc_pc = "corrected"
    /\ CorrectionTypeOf(gc_mapping) = "remove_flag"
    /\ gc_command = "nmap -O 10.0.0.5"
    /\ gc_correction.corrected_command = "nmap"

\* another flag went with the flag before it, and its argument stayed
C33_OtherFlagRemoved ==
    /\ gc_pc = "corrected"
    /\ CorrectionTypeOf(gc_mapping) = "remove_flag"
    /\ HasToken(gc_command, "-p")
    /\ ~HasToken(gc_correction.corrected_command, "-p")
    /\ HasToken(gc_correction.corrected_command, "80")

\* a listed flag at the end of the command is removed alone
C33_LastFlagRemoved ==
    /\ gc_pc = "corrected"
    /\ CorrectionTypeOf(gc_mapping) = "remove_flag"
    /\ gc_command = "nmap 10.0.0.5 -O"
    /\ gc_correction.corrected_command = "nmap 10.0.0.5"

\* the number of ports of the range -p start-end matched at index i of s
PortSpan(s, i) ==
    ParseInt(PortRangeMatch(s, i).group2) - ParseInt(PortRangeMatch(s, i).group1) + 1

\* C34: after _simplify_command every explicit range -p start-end of the
\* resulting command spans at most 100 ports
C34_AtMost100Ports ==
    (gc_pc # "start" /\ CorrectionTypeOf(gc_mapping) = "simplify_command") =>
        \A i \in PortRangeHits(gc_correction.corrected_command) :
            PortSpan(gc_correction.corrected_command, i) <= 100

\* what the code keeps: a command with an explicit range comes out with a
\* range of at most 101 ports, and so does every command simplified twice
C34_AtMost101Ports ==
    /\ (/\ gc_pc # "start"
        /\ CorrectionTypeOf(gc_mapping) = "simplify_command"
        /\ PortRangeHits(gc_command) # {})
          => \A i \in PortRangeHits(gc_correction.corrected_command) :
                PortSpan(gc_correction.corrected_command, i) <= 101
    /\ (gc_pc = "repeated" /\ CorrectionTypeOf(gc_mapping) = "simplify_command")
          => \A i \in PortRangeHits(gc_repeat.corrected_command) :
                PortSpan(gc_repeat.corrected_command, i) <= 101

\* a range that was limited spans 101 ports
C34_LimitedTo101 ==
    /\ gc_pc = "corrected"
    /\ CorrectionTypeOf(gc_mapping) = "simplify_command"
    /\ gc_correction.changes = <<"Limited port range to 100 ports">>
    /\ \E i \in PortRangeHits(gc_correction.corrected_command) :
          PortSpan(gc_correction.corrected_command, i) = 101

\* a range of 101 ports is left as it is
C34_Unlimited101 ==
    /\ gc_pc = "corrected"
    /\ CorrectionTypeOf(gc_mapping) = "simplify_command"
    /\ gc_correction.corrected_command = gc_command
    /\ \E i \in PortRangeHits(gc_command) : PortSpan(gc_command, i) = 101

\* all ports become an explicit range of 1000 ports
C34_AllPortsTo1000 ==
    /\ gc_pc = "corrected"
    /\ CorrectionTypeOf(gc_mapping) = "simplify_command"
    /\ Contains(gc_command, "-p-")
    /\ \E i \in PortRangeHits(gc_correction.corrected_command) :
          PortSpan(gc_correction.corrected_command, i) = 1000

\* correction_action["fallback"] of the script mapping
fallback == "default"

\* the script a command names with --script NAME or --script=NAME ("" for
\* none)
ScriptOf(s) ==
    IF \E k \in 1..(Len(Tokens(s)) - 1) : Tokens(s)[k] = "--script"
    THEN Tokens(s)[First({k \in 1..(Len(Tokens(s)) - 1) : Tokens(s)[k] = "--script"}) + 1]
    ELSE IF \E k \in 1..Len(Tokens(s)) : StartsWithAt(Tokens(s)[k], "--script=", 1)
    THEN SubSeq(Tokens(s)[First({k \in 1..Len(Tokens(s)) :
                                    StartsWithAt(Tokens(s)[k], "--script=", 1)})],
                10, Len(Tokens(s)[First({k \in 1..Len(Tokens(s)) :
                                    StartsWithAt(Tokens(s)[k], "--script=", 1)})]))
    ELSE ""

\* the configured categories a script belongs to, as indices of alternatives
CategoriesOf(script) == {k \in 1..Len(alternatives) : Contains(script, alternatives[k][1])}

\* the configured alternative of the script's category, the fallback for a
\* script of no category
SafeAlternative(script) ==
    IF CategoriesOf(script) = {} THEN fallback
    ELSE alternatives[First(CategoriesOf(script))][2]

\* C35: script substitution (alternative_approach, for a script_not_found
\* error) replaces a script of a configured category by that category's
\* alternative and a script of no configured category by the fallback
\* category; in both cases the corrected command differs from the input
C35_ScriptSubstituted ==
    (/\ gc_pc # "start"
     /\ CorrectionTypeOf(gc_mapping) = "alternative_approach"
     /\ ScriptOf(gc_command) # "")
        => /\ ScriptOf(gc_correction.corrected_command)
                 = SafeAlternative(ScriptOf(gc_command))
           /\ gc_correction.corrected_command # gc_command

\* what the code keeps: a script of a configured category that is written
\* with a blank after --script is replaced by the category's alternative
C35_CategoryWithBlank ==
    (/\ gc_pc # "start"
     /\ CorrectionTypeOf(gc_mapping) = "alternative_approach"
     /\ HasToken(gc_command, "--script")
     /\ CategoriesOf(ScriptOf(gc_command)) # {})
        => /\ ScriptOf(gc_correction.corrected_command)
                 = SafeAlternative(ScriptOf(gc_command))
           /\ gc_correction.corrected_command # gc_command

\* a script of no configured category is left in the command
C35_NoFallback ==
    /\ gc_pc = "corrected"
    /\ CorrectionTypeOf(gc_mapping) = "alternative_approach"
    /\ ScriptOf(gc_command) # ""
    /\ CategoriesOf(ScriptOf(gc_command)) = {}
    /\ gc_correction = [corrected_command |-> gc_command, changes |-> <<>>]

\* a replacement is reported for --script=NAME and the command is the same
C35_ReportedNotReplaced ==
    /\ gc_pc = "corrected"
    /\ CorrectionTypeOf(gc_mapping) = "alternative_approach"
    /\ gc_correction.changes = <<"Replaced script exploit with safe">>
    /\ gc_correction.corrected_command = gc_command

\* a script of the category brute is replaced by auth
C35_CategoryReplaced ==
    /\ gc_pc = "corrected"
    /\ CorrectionTypeOf(gc_mapping) = "alternative_approach"
    /\ ScriptOf(gc_command) = "ssh-brute"
    /\ ScriptOf(gc_correction.corrected_command) = "auth"

\* C38: _simplify_command is idempotent: applied to its own result it
\* returns that result unchanged, so the simplification repeated in the
\* next iteration changes nothing
C38_SimplifyIdempotent ==
    (gc_pc = "repeated" /\ CorrectionTypeOf(gc_mapping) = "simplify_command") =>
        /\ gc_repeat.corrected_command = gc_correction.corrected_command
        /\ gc_repeat.changes = <<>>

\* what the code keeps: the second result is a fixed point, and so is the
\* first one for a command that does not scan all ports with -p-
C38_FixedAfterTwo ==
    (gc_pc = "repeated" /\ CorrectionTypeOf(gc_mapping) = "simplify_command") =>
        /\ _simplify_command(gc_repeat.corrected_command)
              = [corrected_command |-> gc_repeat.corrected_command, changes |-> <<>>]
        /\ ~Contains(gc_command, "-p-") => gc_repeat.corrected_command
                                              = gc_correction.corrected_command

\* the second simplification limits the range the first one wrote
C38_SecondChange ==
    /\ gc_pc = "repeated"
    /\ CorrectionTypeOf(gc_mapping) = "simplify_command"
    /\ gc_correction.corrected_command = "nmap -p 1-1000 10.0.0.5"
    /\ gc_repeat = [corrected_command |-> "nmap -p 1-101 10.0.0.5",
                    changes |-> <<"Limited port range to 100 ports">>]

\* C36: whenever validate_nmap_command with the security rules applied
\* accepts a command (valid = True), no token of the command starts with an
\* entry of FORBIDDEN_FLAGS, a token right behind an argument-taking flag
\* included
C36_AcceptedHasNoForbiddenToken ==
    (vpc = "returned" /\ apply_security_rules /\ vresponse.valid) =>
        \A k \in 2..Len(vparts) : FlagMatches(vparts[k], FORBIDDEN_FLAGS, "critical") = <<>>

\* what the code keeps: no token that was taken for a flag starts with an
\* entry of FORBIDDEN_FLAGS in an accepted command
C36_AcceptedFlagsClean ==
    (vpc = "returned" /\ apply_security_rules /\ vresponse.valid) =>
        \A k \in 1..Len(vflags) : FlagMatches(vflags[k], FORBIDDEN_FLAGS, "critical") = <<>>

\* a forbidden flag behind -p was taken for the argument of -p and the
\* command is accepted
C36_ForbiddenArgumentAccepted ==
    /\ vpc = "returned"
    /\ apply_security_rules
    /\ vresponse.valid
    /\ vparts = <<"nmap", "-p", "-T5", "scanme.nmap.org">>
    /\ vflags = <<"-p">>
    /\ vresponse.security.forbidden_flags.violations = <<>>

\* the same flag in front of -p is reported and the command is rejected
C36_ForbiddenFlagRejected ==
    /\ vpc = "returned"
    /\ apply_security_rules
    /\ ~vresponse.valid
    /\ vparts = <<"nmap", "-T5", "-p", "80", "scanme.nmap.org">>
    /\ Len(vresponse.security.forbidden_flags.violations) = 1

\* the values of the enum ExecutionError
ExecutionError ==
    {"permission_denied", "network_unreachable", "timeout", "invalid_argument",
     "port_specification", "script_not_found", "dns_resolution", "resource_limit",
     "syntax_error", "unknown"}

\* the types the simulator writes into an error record: those of the
\* pattern table, timeout for an expired run and unknown for an exit code
\* or a failed simulation
EmittedKinds == {PATTERNS[k].type : k \in 1..Len(PATTERNS)} \cup {"timeout", "unknown"}

\* the types of the error records of all reports made so far
ReportedKinds ==
    UNION {{sim_calls[k].report.errors[e].type : e \in 1..Len(sim_calls[k].report.errors)} :
              k \in 1..Len(sim_calls)}

\* C37: every key of AUTONOMOUS_FIXES is an error kind of the closed set the
\* simulator emits (and every type the simulator reports is of that set), so
\* that every entry of the table can be selected by the type of a first
\* error record
C37_KeysAreErrorKinds ==
    /\ ReportedKinds \subseteq ExecutionError
    /\ AUTONOMOUS_FIXES_KEYS \subseteq ExecutionError

\* what the code keeps: the reported types are emitted kinds of the enum,
\* and the only entry of the table an autonomous repair was ever selected
\* from is permission_denied
C37_OnlyPermissionSelected ==
    /\ ReportedKinds \subseteq (ExecutionError \cap EmittedKinds)
    /\ EmittedKinds \subseteq ExecutionError
    /\ AUTONOMOUS_FIXES_KEYS \cap ExecutionError = {"permission_denied"}
    /\ repair_result # <<>> =>
          /\ InitialErrors
          /\ sim_calls[1].report.errors[1].type = "permission_denied"

\* an autonomous repair selected by the type permission_denied
C37_PermissionSelected ==
    /\ repair_result # <<>>
    /\ sim_calls[1].report.errors[1].type = "permission_denied"
    /\ repair_result[1].repair_type = "permission_fix"

\* the calls of the Generator of one tier, in one visit or in all of them
GeneratorCalls(tier) ==
    {k \in 1..Len(calls) : calls[k].kind = "generate" /\ calls[k].tier = tier}

\* C40: within one request the Generator of each tier is called at most once,
\* and the candidate validated during the visit of a tier is the one that
\* tier's own Generator produced, whatever Generators fail and whatever the
\* Validator answers
C40_OwnGeneratorOnce ==
    /\ \A tier \in 0..LastLevel : Cardinality(GeneratorCalls(tier)) <= 1
    /\ \A k \in 1..Len(calls) :
          calls[k].kind = "validate" =>
              /\ calls[k].tier = calls[k].visit
              /\ (k > 1 /\ calls[k - 1].kind = "generate") =>
                    calls[k - 1].outcome = "ok" /\ calls[k - 1].tier = calls[k].visit

\* what the code keeps: in one visit the Generator of a tier is called at
\* most once and only for the visit's tier or, after failures, a later one;
\* the first Validator call of a visit follows a Generator call that
\* succeeded; and while no Generator has failed, the claim holds
C40_OncePerVisit ==
    /\ \A tier \in 0..LastLevel : \A visit \in 0..LastLevel :
          /\ Cardinality(GeneratorCalls(tier) \cap CallsOf({"generate"}, visit)) <= 1
          /\ GeneratorCalls(tier) \cap CallsOf({"generate"}, visit) # {} => visit <= tier
    /\ \A k \in 2..Len(calls) :
          (calls[k].kind = "validate" /\ calls[k - 1].kind = "generate") =>
              calls[k - 1].outcome = "ok" /\ calls[k - 1].visit = calls[k].visit
    /\ (\A k \in 1..Len(calls) : calls[k].kind = "generate" => calls[k].outcome = "ok")
          => /\ \A tier \in 0..LastLevel : Cardinality(GeneratorCalls(tier)) <= 1
             /\ \A k \in 1..Len(calls) : calls[k].tier = calls[k].visit

\* the visit of easy validated the candidate of medium's Generator, and the
\* visit of medium called that Generator again
C40_CalledAgain ==
    /\ \E k \in 2..Len(calls) :
          /\ calls[k].kind = "validate" /\ calls[k].visit = 0
          /\ calls[k].command = GeneratorAnswer[1].command
          /\ calls[k - 1].kind = "generate" /\ calls[k - 1].tier = 1
    /\ Cardinality(GeneratorCalls(1)) = 2

\* C39: any two distinct sessions of the history have distinct ids, whatever
\* the times of their creation, so that a lookup by id that finds a session
\* has found the only session with that id
C39_DistinctIds ==
    /\ \A i \in 1..Len(Snapshot) : \A j \in 1..Len(Snapshot) :
          i # j => Snapshot[i].session_id # Snapshot[j].session_id
    /\ (session_report # <<>> /\ session_report.status_code = 200) =>
          Cardinality(SessionsWithId(session_report.report.session_summary.session_id)) = 1

\* what the code keeps: a lookup answers with the report of the first
\* session of the history that has the id, and with 404 exactly when the
\* history holds no session with the id
C39_FirstMatchReturned ==
    [][\A id \in SessionIds :
          GetRepairSession(id) =>
              IF \E k \in 1..Len(Snapshot) : Snapshot[k].session_id = id
              THEN /\ session_report'.status_code = 200
                   /\ session_report'.report.session_summary.session_id = id
                   /\ \E k \in 1..Len(Snapshot) :
                         /\ session_report'.report = generate_report(Snapshot[k])
                         /\ \A j \in 1..(k - 1) : Snapshot[j].session_id # id
              ELSE session_report'.status_code = 404]_vars

\* sessions created in different seconds have different ids: a session gets
\* the id of the second of its creation, and when a second has passed no
\* session made or stored so far has the id of the new second
C39_DistinctSeconds ==
    [][/\ \A r \in Requests :
             RunCorrection(r) => session_obj'[r].session_id = SessionId(now)
       /\ Tick_Second =>
             /\ SessionId(now') \notin {SessionId(t) : t \in 0..now}
             /\ \A r \in Requests :
                   session_obj[r] # <<>> => session_obj[r].session_id # SessionId(now')]_vars

\* two sessions of the history were created in the same second and share
\* their id; the lookup by that id has returned the first, which is not the
\* second
C39_SharedId ==
    /\ Len(Snapshot) = 2
    /\ Snapshot[1].session_id = Snapshot[2].session_id
    /\ generate_report(Snapshot[1]) # generate_report(Snapshot[2])
    /\ session_report # <<>>
    /\ session_report.status_code = 200
    /\ session_report.report = generate_report(Snapshot[1])

\* a lookup by an id that no session has
C39_NotFound ==
    /\ shared_sessions # <<>>
    /\ session_report # <<>>
    /\ session_report.status_code = 404

====
